---- MODULE Spec2Model ----
(***************************************************************************)
(* Fetch-orchestration core of the Farcaster connector                     *)
(* (src/server/src/index.ts) with its boundary validation, and the SDK     *)
(* client (src/sdk/src/config.ts): estimate cache, pricing helpers and     *)
(* the fetch call with its payment retry and deadline.                     *)
(*                                                                         *)
(* Time is counted in ticks.  The policy constants of the source (60000 ms *)
(* window, ceilings 250 / 450, 100 ms buffer, page size 150, batch size    *)
(* 25, ...) are kept under their source names but scaled down so that the  *)
(* ceilings are reached within the explored state space; every guard and    *)
(* formula that uses them is the source's.  Date.now() is one value for    *)
(* the whole of a synchronous block (the code between two awaits).         *)
(***************************************************************************)
EXTENDS Integers, Sequences, FiniteSets, TLC

\* ---------------------------------------------------------------- bounds
MaxTime == 6
NumCallers == 2
MaxCalls == 4
\* the longest upstream history explored
MaxCasts == 3
\* the largest explicit limit explored (0 stands for an omitted limit)
MaxLimit == 2
\* the longest time-to-live passed to setCache
MaxTtl == 2
\* the most estimate requests of one fingerprint in flight at a time
MaxInflight == 2
\* the largest page the upstream returns
PageSize == 2

\* ------------------------------------------------- RateLimiter constants
\* index.ts:37  ENDPOINT_LIMIT = 250 (scaled)
ENDPOINT_LIMIT == 2
\* index.ts:38  GLOBAL_LIMIT = 450 (scaled, kept above ENDPOINT_LIMIT)
GLOBAL_LIMIT == 3
\* index.ts:39  WINDOW_MS = 60000 (scaled to ticks)
WINDOW_MS == 3
\* index.ts:72  "+ 100" buffer added to the wait (scaled to ticks)
BUFFER_MS == 1
\* index.ts:68  setTimeout(resolve, 1000) of the safety branch (scaled)
SAFETY_WAIT_MS == 1

\* index.ts:152  Number(params.limit) || 50
DEFAULT_LIMIT == 50
\* index.ts:192  batchSize = 25 (scaled)
batchSize == 2
\* index.ts:96  setCache(..., 300000) (scaled to ticks)
FID_TTL_MS == 5
\* config.ts:163  ESTIMATE_CACHE_TTL = 60000 (scaled to ticks)
ESTIMATE_CACHE_TTL == 2

CastsEndpoint == "/v2/farcaster/feed/user/casts"
CastEndpoint == "/v2/farcaster/cast"
Endpoints == {CastsEndpoint, CastEndpoint}

Callers == 1..NumCallers

VARIABLES
    clock,             \* Date.now()
    globalRequests,    \* RateLimiter.globalRequests
    endpointRequests,  \* RateLimiter.endpointRequests (a missing key is <<>>)
    admitted,          \* history: per endpoint, the timestamps of all admissions
    callerPc,          \* per concurrent caller of waitForSlot: "idle" | "waiting"
    callerEndpoint,    \* the endpoint key a waiting caller passed
    callerWake,        \* the time the caller's setTimeout is due
    callerWoke,        \* history: the caller's current call has waited and woken
    resolvePc,         \* per concurrent call of resolveFid: its position
    resolveName,       \* the normalized username the call resolves ("" before)
    resolveMissAt,     \* history: when the call's getCached returned null (0: not)
    resolveWroteAt,    \* history: when the call's setCache ran (0: not)
    dataset,           \* the upstream's casts of the user, newest first
    pageSize,          \* the number of casts the upstream puts on a page
    params,            \* FarcasterQueryParams of the request
    reqPc,             \* position of the request in fetchUserData / fetchCasts
    reqWake,           \* the time the page loop's waitForSlot timer is due
    allCasts,          \* fetchCasts: allCasts
    cursor,            \* fetchCasts: cursor (0 is undefined)
    parentHashes,      \* fetchCasts: parentHashes
    batchStart,        \* fetchCasts: i of the batch loop
    lookup,            \* per parent hash, the position of its lookup callback
    lookupWake,        \* per parent hash, the time its waitForSlot timer is due
    parentMap,         \* fetchCasts: parentMap
    outbound,          \* history: calls issued to the upstream, per SDK method
    error,             \* the call whose error ended the request ("" if none)
    response,          \* what app.get("/") answered: status and casts rendered
    cache,             \* the server's cache Map
    estimateCache,     \* LlmFidClient.estimateCache
    estimateInflight,  \* per fingerprint, the /estimate requests in flight
    serverStored,      \* history: per key, the latest setCache (time, ttl, data)
    clientStored,      \* history: per fingerprint, the latest estimateCache.set
    lastRead,          \* history: the latest cache read and what it found stored
    optsA,             \* FetchOptions passed to the client's pure helpers
    freeA,             \* the value of isFreeTier(optsA) ("" before the call)
    fpA,               \* the value of getPricingFingerprint(optsA) ("" before)
    keyA,              \* the key resolveFid builds for optsA.username ("" before)
    pricingPc,         \* which helper is applied to optsA next
    urlA,              \* the value of getUrl(optsA) (NoUrl before the call)
    hasSigner,         \* LlmFidClient.hasSigner: config.signer was given
    payPc,             \* where the one call of client.fetch stands
    attempts,          \* history: outbound requests made by the call
    signed,            \* history: invocations of the signer
    authorized,        \* history: per attempt, was an authorization attached
    responses,         \* history: the responses received, in order
    timerDeadline,     \* when the setTimeout of fetch fires (0: no timer pending)
    aborted,           \* controller.signal.aborted
    startedAt,         \* history: Date.now() when fetch was called
    settledAt,         \* history: Date.now() when fetch returned or threw
    result,            \* what fetch returned or threw
    query,             \* c.req.query(): the parameters present and their text
    estimateCall,      \* history: the options of the latest getServerEstimate call
    estimateResult,    \* history: what the latest getServerEstimate to settle returned
    prevStored         \* history: per fingerprint, the store before the latest one

rlVars == <<clock, globalRequests, endpointRequests, admitted>>
callerVars == <<callerPc, callerEndpoint, callerWake, callerWoke>>
inputVars == <<dataset, pageSize, params>>
parentVars == <<parentHashes, batchStart, lookup, lookupWake, parentMap>>
reqVars == <<reqPc, reqWake, allCasts, cursor, parentVars, outbound, error, response>>
clientVars == <<estimateCache, estimateInflight, clientStored>>
cacheVars == <<cache, estimateCache, estimateInflight, serverStored, clientStored,
              lastRead>>
pricingVars == <<optsA, freeA, fpA, keyA, pricingPc, urlA>>
payVars == <<hasSigner, payPc, attempts, signed, authorized, responses,
             timerDeadline, aborted, startedAt, settledAt, result>>
estimateVars == <<estimateCall, estimateResult, prevStored>>
resolveVars == <<resolvePc, resolveName, resolveMissAt, resolveWroteAt>>
otherExtVars == <<pricingVars, payVars, query, resolveVars>>
extVars == <<otherExtVars, estimateVars>>
vars == <<rlVars, callerVars, inputVars, reqVars, cacheVars, extVars>>

\* ---------------------------------------------------------------- values
UserNotFound == "User not found"   \* the message of the Error thrown
NoParent == ""        \* parent_hash null / parentHash undefined
NoCast == ""          \* no parentCast, a null lookup result
NoEntry == [data |-> 0, expiry |-> 0]   \* Map.get(key) is undefined; never live
ParentHashes == {"pa", "pb", "pc"}
SortOrders == {"", "newest", "oldest"}  \* "" is an omitted sortOrder
Usernames == {"alice"}
CacheKeys == {"fid:alice", "fid:bob"}
Fingerprints == {"alice|50|||", "alice|all|||", "alice|10|||"}
NoCached == [estimate |-> 0, timestamp |-> 0]  \* estimateCache.get is undefined
NeverStored == [at |-> 0, ttl |-> 0, data |-> 0]
NoRead == [which |-> "", key |-> "", at |-> 0, value |-> 0, stored |-> NeverStored]
Settled == {"ok", "null", "error"}
Apis == {"lookupUserByUsername", "fetchBulkUsers", "fetchCastsForUser",
         "lookupCastByHashOrUrl"}

Min(a, b) == IF a < b THEN a ELSE b
Max(a, b) == IF a > b THEN a ELSE b

\* ------------------------------------------------------------ RateLimiter

\* a window that forgets its requests one tick early
cleanOldRequestsNarrow(requests, now) ==
    SelectSeq(requests, LAMBDA timestamp : now - timestamp < WINDOW_MS - 1)

\* RateLimiter.cleanOldRequests
cleanOldRequests(requests, now) ==
    SelectSeq(requests, LAMBDA timestamp : now - timestamp < WINDOW_MS)

\* the limit test of waitForSlot (index.ts:58)
AtLimit(globalCount, endpointCount) ==
    globalCount >= GLOBAL_LIMIT \/ endpointCount >= ENDPOINT_LIMIT

\* a delay that is the time the oldest request has already spent in its window
WaitTimeElapsed(globalReqs, endpointReqs, now) ==
    LET relevantRequests ==
            IF Len(globalReqs) >= GLOBAL_LIMIT THEN globalReqs ELSE endpointReqs
    IN  IF relevantRequests = <<>> THEN 0 ELSE now - relevantRequests[1]

\* The delay of the setTimeout a blocked waitForSlot awaits (index.ts:60-74).
\* "!oldestRequest" is true of a missing element and of the number 0.
WaitTime(globalReqs, endpointReqs, now) ==
    LET relevantRequests ==
            IF Len(globalReqs) >= GLOBAL_LIMIT THEN globalReqs ELSE endpointReqs
    IN  IF relevantRequests = <<>> \/ relevantRequests[1] = 0
        THEN SAFETY_WAIT_MS
        ELSE WINDOW_MS - (now - relevantRequests[1]) + BUFFER_MS

\* a limiter that records the call in both windows even when it has to wait
waitForSlotCountsWaits(globalReqs, endpointWindow, now) ==
    LET cleanedGlobal == cleanOldRequests(globalReqs, now)
        endpointReqs == cleanOldRequests(endpointWindow, now)
        blocked == AtLimit(Len(cleanedGlobal), Len(endpointReqs))
    IN  [ admit |-> ~blocked,
          global |-> Append(cleanedGlobal, now),
          reqs |-> Append(endpointReqs, now),
          wake |-> IF blocked THEN now + WaitTime(cleanedGlobal, endpointReqs, now)
                   ELSE 0 ]

\* One synchronous pass of waitForSlot at time now over the global window
\* and the window of the endpoint passed: the windows after the pass, whether
\* the call was admitted, and otherwise the time at which the pass is repeated.
waitForSlot(globalReqs, endpointWindow, now) ==
    LET cleanedGlobal == cleanOldRequests(globalReqs, now)
        endpointReqs == cleanOldRequests(endpointWindow, now)
        blocked == AtLimit(Len(cleanedGlobal), Len(endpointReqs))
    IN  [ admit |-> ~blocked,
          global |-> IF blocked THEN cleanedGlobal ELSE Append(cleanedGlobal, now),
          reqs |-> IF blocked THEN endpointReqs ELSE Append(endpointReqs, now),
          wake |-> IF blocked THEN now + WaitTime(cleanedGlobal, endpointReqs, now)
                   ELSE 0 ]

\* A wake-up that takes the freed slot without testing the limits again.
RetryUnchecked(globalReqs, endpointWindow, now) ==
    [ admit |-> TRUE,
      global |-> Append(cleanOldRequests(globalReqs, now), now),
      reqs |-> Append(cleanOldRequests(endpointWindow, now), now),
      wake |-> 0 ]

\* what a woken caller does: "return this.waitForSlot(endpoint)" (index.ts:71,75)
Retry(globalReqs, endpointWindow, now) ==
    waitForSlot(globalReqs, endpointWindow, now)

\* The effect of one pass r, made at time now, on the limiter's state.
ApplyPass(endpoint, r, now) ==
    /\ globalRequests' = r.global
    /\ endpointRequests' = [endpointRequests EXCEPT ![endpoint] = r.reqs]
    /\ admitted' = IF r.admit
                   THEN [admitted EXCEPT ![endpoint] = Append(@, now)]
                   ELSE admitted

\* ------------------------------------------------------------ server cache

\* an entry that is dead from its expiry instant on
CacheLiveExclusive(item, now) == item # NoEntry /\ ~(now >= item.expiry)

\* the test of getCached (index.ts:22), negated: the entry is returned
CacheLive(item, now) == item # NoEntry /\ ~(now > item.expiry)

\* getCached: the value returned (0 is null)
getCached(c, key, now) == IF CacheLive(c[key], now) THEN c[key].data ELSE 0

\* a getCached that leaves an expired entry in the Map
CacheAfterGetKeep(c, key, now) == c

\* getCached: the Map afterwards (cache.delete(key) on a miss)
CacheAfterGet(c, key, now) ==
    IF CacheLive(c[key], now) THEN c ELSE [c EXCEPT ![key] = NoEntry]

\* setCache
setCache(c, key, data, ttl, now) ==
    [c EXCEPT ![key] = [data |-> data, expiry |-> now + ttl]]

\* a call of getCached(key), with the record of what was read
ServerGet(key) ==
    /\ cache' = CacheAfterGet(cache, key, clock)
    /\ lastRead' = [which |-> "server", key |-> key, at |-> clock,
                    value |-> getCached(cache, key, clock),
                    stored |-> serverStored[key]]
    /\ UNCHANGED serverStored

\* a call of setCache(key, data, ttl), with the record of what was stored
ServerSet(key, data, ttl) ==
    /\ cache' = setCache(cache, key, data, ttl, clock)
    /\ serverStored' = [serverStored EXCEPT ![key] =
                            [at |-> clock, ttl |-> ttl, data |-> data]]
    /\ UNCHANGED lastRead

\* ------------------------------------------------- client estimate cache

\* a test that still returns the cached estimate at the instant it expires
EstimateLiveInclusive(cached, now) ==
    cached # NoCached /\ now - cached.timestamp <= ESTIMATE_CACHE_TTL

\* the test of getServerEstimate (config.ts:253): the cached estimate is returned
EstimateLive(cached, now) ==
    cached # NoCached /\ now - cached.timestamp < ESTIMATE_CACHE_TTL

\* --------------------------------------------- client helpers (config.ts)
\* config.ts:42  FREE_TIER.maxLimit
FREE_TIER_maxLimit == 10
\* config.ts:49 and :64  options.limit || 50
CLIENT_DEFAULT_LIMIT == 50

\* An optional boolean of FetchOptions is "undefined", "false" or "true"; an
\* optional number is 0 when omitted (0 and undefined are both falsy in every
\* test the helpers make, and a fid is positive); an optional string is "" or
\* <<>> when omitted.  A username is a sequence of characters.
OptBool == {"undefined", "false", "true"}
Truthy(b) == b = "true"
ClientLimits == {0, 10, 11, 50}
NoName == <<>>
ClientNames ==
    { <<"3">>, <<"a", "l", "i", "c", "e">>, <<"A", "l", "i", "c", "e">>,
      <<"@", "a", "l", "i", "c", "e">> }
\* exactly one identifier form is supplied
Identifiers ==
    {[fid |-> 3, username |-> NoName]}
        \cup {[fid |-> 0, username |-> n] : n \in ClientNames}

OptionSpace ==
    { [ fid |-> id.fid, username |-> id.username, limit |-> l, all |-> a,
        includeReplies |-> r, includeParents |-> p, includeReactions |-> x,
        sortOrder |-> so ] :
      id \in Identifiers, l \in ClientLimits, a \in OptBool, r \in OptBool,
      p \in OptBool, x \in OptBool, so \in SortOrders }

NoOptions ==
    [ fid |-> 0, username |-> NoName, limit |-> 0, all |-> "undefined",
      includeReplies |-> "undefined", includeParents |-> "undefined",
      includeReactions |-> "undefined", sortOrder |-> "" ]

\* the string a sequence of characters spells
RECURSIVE Str(_)
Str(chars) == IF chars = <<>> THEN "" ELSE Head(chars) \o Str(Tail(chars))

\* parts.join(sep)
RECURSIVE Join(_, _)
Join(parts, sep) ==
    IF Len(parts) = 0 THEN ""
    ELSE IF Len(parts) = 1 THEN parts[1]
    ELSE parts[1] \o sep \o Join(Tail(parts), sep)

\* String.prototype.toLowerCase over the characters of ClientNames
toLowerCase(chars) ==
    [i \in 1..Len(chars) |-> IF chars[i] = "A" THEN "a" ELSE chars[i]]

\* a replace that drops nothing
StripNothing(chars) == chars

\* .replace(/^@/, ""): one leading "@" is dropped
StripAt(chars) ==
    IF chars # <<>> /\ Head(chars) = "@" THEN Tail(chars) ELSE chars

\* username.toLowerCase().replace(/^@/, "")   (index.ts:89, config.ts:84)
Normalize(chars) == StripAt(toLowerCase(chars))

\* a comparison that also refuses a limit equal to the maximum
isFreeTierStrict(options) ==
    LET limit == IF options.limit # 0 THEN options.limit ELSE CLIENT_DEFAULT_LIMIT
    IN  IF limit >= FREE_TIER_maxLimit THEN FALSE
        ELSE IF Truthy(options.all) THEN FALSE
        ELSE IF Truthy(options.includeReplies) THEN FALSE
        ELSE IF Truthy(options.includeParents) THEN FALSE
        ELSE TRUE

isFreeTier(options) ==
    LET limit == IF options.limit # 0 THEN options.limit ELSE CLIENT_DEFAULT_LIMIT
    IN  IF limit > FREE_TIER_maxLimit THEN FALSE
        ELSE IF Truthy(options.all) THEN FALSE
        ELSE IF Truthy(options.includeReplies) THEN FALSE
        ELSE IF Truthy(options.includeParents) THEN FALSE
        ELSE TRUE

\* a fingerprint whose count part is the limit even when all is set
getPricingFingerprintLimitAlways(options) ==
    Join(<< IF options.fid # 0 THEN ToString(options.fid)
            ELSE Str(options.username),
            ToString(IF options.limit # 0 THEN options.limit
                     ELSE CLIENT_DEFAULT_LIMIT),
            IF Truthy(options.includeReplies) THEN "r" ELSE "",
            IF Truthy(options.includeParents) THEN "p" ELSE "",
            IF Truthy(options.includeReactions) THEN "x" ELSE "" >>, "|")

getPricingFingerprint(options) ==
    Join(<< IF options.fid # 0 THEN ToString(options.fid)
            ELSE Str(options.username),
            IF Truthy(options.all) THEN "all"
            ELSE ToString(IF options.limit # 0 THEN options.limit
                          ELSE CLIENT_DEFAULT_LIMIT),
            IF Truthy(options.includeReplies) THEN "r" ELSE "",
            IF Truthy(options.includeParents) THEN "p" ELSE "",
            IF Truthy(options.includeReactions) THEN "x" ELSE "" >>, "|")

\* a query string that carries the limit even when all is set
buildQueryStringLimitAlways(options) ==
    [ fid |-> IF options.fid # 0 THEN ToString(options.fid) ELSE "",
      username |-> IF options.username # NoName
                   THEN Str(Normalize(options.username)) ELSE "",
      limit |-> IF options.limit # 0 THEN ToString(options.limit) ELSE "",
      all |-> IF Truthy(options.all) THEN "true" ELSE "",
      includeReplies |-> IF Truthy(options.includeReplies) THEN "true" ELSE "",
      includeParents |-> IF Truthy(options.includeParents) THEN "true" ELSE "",
      sortOrder |-> IF options.sortOrder # "" /\ options.sortOrder # "newest"
                    THEN options.sortOrder ELSE "",
      includeReactions |-> IF Truthy(options.includeReactions) THEN "true"
                           ELSE "" ]

\* a query string that carries every sortOrder given, the default included
buildQueryStringAnySort(options) ==
    [ fid |-> IF options.fid # 0 THEN ToString(options.fid) ELSE "",
      username |-> IF options.username # NoName
                   THEN Str(Normalize(options.username)) ELSE "",
      limit |-> IF options.limit # 0 /\ ~Truthy(options.all)
                THEN ToString(options.limit) ELSE "",
      all |-> IF Truthy(options.all) THEN "true" ELSE "",
      includeReplies |-> IF Truthy(options.includeReplies) THEN "true" ELSE "",
      includeParents |-> IF Truthy(options.includeParents) THEN "true" ELSE "",
      sortOrder |-> options.sortOrder,
      includeReactions |-> IF Truthy(options.includeReactions) THEN "true"
                           ELSE "" ]

\* the query parameters buildQueryString sets ("" : the parameter is not set)
buildQueryString(options) ==
    [ fid |-> IF options.fid # 0 THEN ToString(options.fid) ELSE "",
      username |-> IF options.username # NoName
                   THEN Str(Normalize(options.username)) ELSE "",
      limit |-> IF options.limit # 0 /\ ~Truthy(options.all)
                THEN ToString(options.limit) ELSE "",
      all |-> IF Truthy(options.all) THEN "true" ELSE "",
      includeReplies |-> IF Truthy(options.includeReplies) THEN "true" ELSE "",
      includeParents |-> IF Truthy(options.includeParents) THEN "true" ELSE "",
      sortOrder |-> IF options.sortOrder # "" /\ options.sortOrder # "newest"
                    THEN options.sortOrder ELSE "",
      includeReactions |-> IF Truthy(options.includeReactions) THEN "true"
                           ELSE "" ]

\* the order in which buildQueryString sets the parameters (config.ts:80-103)
QueryOrder ==
    << "fid", "username", "limit", "all", "includeReplies", "includeParents",
       "sortOrder", "includeReactions" >>

\* the URLSearchParams built: the parameters set, in the order they were set
RECURSIVE ParamsFrom(_, _)
ParamsFrom(q, keys) ==
    IF keys = <<>> THEN <<>>
    ELSE (IF q[Head(keys)] # ""
          THEN << [key |-> Head(keys), value |-> q[Head(keys)]] >>
          ELSE <<>>) \o ParamsFrom(q, Tail(keys))

\* URLSearchParams.toString(); no text of the option space needs escaping
ParamsToString(ps) ==
    Join([i \in 1..Len(ps) |-> ps[i].key \o "=" \o ps[i].value], "&")

\* config.ts:23; the client is built without a baseUrl
DEFAULT_BASE_URL == "https://api.llm-fid.fun"
NoUrl == [text |-> "", params |-> <<>>]

\* getUrl (config.ts:232-235): the URL text and the parameters it carries
getUrl(options) ==
    LET ps == ParamsFrom(buildQueryString(options), QueryOrder)
    IN  [text |-> DEFAULT_BASE_URL \o "?" \o ParamsToString(ps), params |-> ps]

\* the cache key of resolveFid (index.ts:89-90)
FidCacheKey(username) == "fid:" \o Str(Normalize(username))

\* ------------------------------------------------ client.fetch (config.ts)
\* config.ts:25  DEFAULT_TIMEOUT = 255000 (scaled to ticks)
DEFAULT_TIMEOUT == 3

\* a response of the server: its status and its body
Responses ==
    { [status |-> 200, body |-> "profile and posts"],
      [status |-> 402, body |-> "payment required"],
      [status |-> 500, body |-> "Error: upstream"] }

NoResult == [kind |-> "none", text |-> "", status |-> 0, error |-> ""]
Threw(message) == [kind |-> "threw", text |-> "", status |-> 0, error |-> message]

\* a constructor that never wraps the base fetch
SelectFetchFnBase(signer) == "baseFetchFn"

\* the constructor's choice of fetchFn (config.ts:174-176)
SelectFetchFn(signer) == IF signer THEN "paymentFetch" ELSE "baseFetchFn"

\* a fetch that throws when payment is required
FetchResultThrowOn402(res) ==
    IF res.status = 402 THEN Threw("payment")
    ELSE [kind |-> "returned", text |-> res.body,
          status |-> res.status, error |-> ""]

\* what fetch returns once the body is read (config.ts:211-215)
FetchResultOf(res) ==
    [kind |-> "returned", text |-> res.body,
     status |-> res.status, error |-> ""]

\* -------------------------------------------- getServerEstimate (config.ts)

\* what one call of getServerEstimate returns; the ServerEstimate of the
\* server is known by a number only
NoEstimate == [kind |-> "none", fp |-> "", estimate |-> 0, price |-> "", isFree |-> FALSE]
FreeEstimate == [kind |-> "free", fp |-> "", estimate |-> 0, price |-> "$0", isFree |-> TRUE]
CachedEstimate(fp, e) ==
    [kind |-> "cached", fp |-> fp, estimate |-> e, price |-> "", isFree |-> FALSE]
FetchedEstimate(fp, e) ==
    [kind |-> "fetched", fp |-> fp, estimate |-> e, price |-> "", isFree |-> FALSE]

\* a failure that reaches the caller as an exception
OnEstimateFailureThrow(fp) ==
    [kind |-> "threw", fp |-> fp, estimate |-> 0, price |-> "", isFree |-> FALSE]

\* "return null" of config.ts:264 and config.ts:273
OnEstimateFailure(fp) ==
    [kind |-> "null", fp |-> fp, estimate |-> 0, price |-> "", isFree |-> FALSE]

\* the option sets the client is asked about
EstimateOptions ==
    LET alice == [NoOptions EXCEPT !.username = <<"a", "l", "i", "c", "e">>]
    IN  { [alice EXCEPT !.limit = 10],
          [alice EXCEPT !.limit = 10, !.includeReactions = "true"],
          alice }

\* ------------------------------------------------------ fetchCasts helpers

SeqsUpTo(S, n) == UNION {[1..k -> S] : k \in 0..n}

Reverse(s) == [i \in 1..Len(s) |-> s[Len(s) + 1 - i]]

\* the upstream's cast at position i of the history d (1 is the newest)
RawCast(d, i) == [hash |-> i, parent_hash |-> d[i], timestamp |-> Len(d) + 1 - i]

\* client.fetchCastsForUser({fid, limit: 150, cursor}): one page and next.cursor
UpstreamPage(d, cur) ==
    LET last == Min(cur + pageSize, Len(d))
    IN  [ casts |-> [k \in 1..(last - cur) |-> RawCast(d, cur + k)],
          next |-> IF last < Len(d) THEN last ELSE 0 ]

\* transformCast
transformCast(c) ==
    [hash |-> c.hash, parentHash |-> c.parent_hash, timestamp |-> c.timestamp,
     parentCast |-> NoCast]

TransformAll(casts) == [k \in 1..Len(casts) |-> transformCast(casts[k])]

\* the page without the reply filter
FilterPageKeepAll(casts, includeReplies) == TransformAll(casts)

\* (res.casts || []).filter(c => includeReplies || !c.parent_hash).map(transformCast)
FilterPage(casts, includeReplies) ==
    TransformAll(SelectSeq(casts, LAMBDA c : includeReplies \/ c.parent_hash = NoParent))

fetchAll(p) == p.all = TRUE

\* parents resolved whether they were asked for or not
includeParentsAlways(p) == TRUE

\* const includeParents = params.includeParents === true (index.ts:154)
includeParents(p) == p.includeParents = TRUE

\* the limit without its default
EffectiveLimitRaw(p) == p.limit

\* Number(params.limit) || 50, the limit when all is not set
EffectiveLimit(p) == IF p.limit = 0 THEN DEFAULT_LIMIT ELSE p.limit

\* the loop condition without its fetch-all arm
ContinuePagingLimitOnly(cur, p, len) ==
    cur # 0 /\ len < EffectiveLimit(p)

\* the loop condition without its limit arm
ContinuePagingAllOnly(cur, p, len) ==
    cur # 0 /\ fetchAll(p)

\* the loop condition asking for one more page when the limit is just reached
ContinuePagingInclusive(cur, p, len) ==
    cur # 0 /\ (fetchAll(p) \/ len <= EffectiveLimit(p))

\* the loop condition without its test of the cursor
ContinuePagingNoCursor(cur, p, len) ==
    fetchAll(p) \/ len < EffectiveLimit(p)

\* the loop condition: cursor && (fetchAll || allCasts.length < limit)
ContinuePaging(cur, p, len) ==
    cur # 0 /\ (fetchAll(p) \/ len < EffectiveLimit(p))

\* if (sortOrder === "oldest") allCasts.reverse()
ApplySortOrder(casts, p) ==
    IF (IF p.sortOrder = "" THEN "newest" ELSE p.sortOrder) = "oldest"
    THEN Reverse(casts) ELSE casts

\* the parent hashes without the Set: one entry per cast that has a parent
AllParents(casts, seen) ==
    LET replies == SelectSeq(casts, LAMBDA c : c.parentHash # NoParent)
    IN  [k \in 1..Len(replies) |-> replies[k].parentHash]

\* [...new Set(allCasts.map(c => c.parentHash).filter(Boolean))]
RECURSIVE DistinctParents(_, _)
DistinctParents(casts, seen) ==
    IF casts = <<>> THEN <<>>
    ELSE LET h == Head(casts).parentHash
         IN  IF h = NoParent \/ h \in seen
             THEN DistinctParents(Tail(casts), seen)
             ELSE <<h>> \o DistinctParents(Tail(casts), seen \cup {h})

\* the slice taken from the end: slice(-limit)
TruncateTail(casts, p) ==
    IF fetchAll(p) THEN casts
    ELSE SubSeq(casts, Len(casts) - Min(EffectiveLimit(p), Len(casts)) + 1, Len(casts))

\* fetchAll ? allCasts : allCasts.slice(0, limit)
Truncate(casts, p) ==
    IF fetchAll(p) THEN casts
    ELSE SubSeq(casts, 1, Min(EffectiveLimit(p), Len(casts)))

\* a batch that takes every remaining hash at once
BatchSeqWhole(hashes, i) == SubSeq(hashes, i + 1, Len(hashes))

\* the batch that starts at index i (0-based): slice(i, i + batchSize)
BatchSeq(hashes, i) == SubSeq(hashes, i + 1, Min(i + batchSize, Len(hashes)))

\* the hashes of that batch
Batch(hashes, i) == {BatchSeq(hashes, i)[k] : k \in 1..Len(BatchSeq(hashes, i))}

\* a batch with a failed lookup contributes nothing (Promise.all rejecting)
MergeBatchAllOrNothing(pm, batch, lk) ==
    IF \A h \in batch : lk[h] = "ok"
    THEN [h \in ParentHashes |-> IF h \in batch THEN h ELSE pm[h]]
    ELSE pm

\* results.forEach(([hash, cast]) => { if (cast) parentMap[hash] = cast })
MergeBatch(pm, batch, lk) ==
    [h \in ParentHashes |-> IF h \in batch /\ lk[h] = "ok" THEN h ELSE pm[h]]

\* allCasts.forEach(c => { if (c.parentHash && parentMap[c.parentHash]) ... })
LinkParents(casts, pm) ==
    [k \in 1..Len(casts) |->
        IF casts[k].parentHash # NoParent /\ pm[casts[k].parentHash] # NoCast
        THEN [casts[k] EXCEPT !.parentCast = pm[casts[k].parentHash]]
        ELSE casts[k]]

\* The passes of waitForSlot("/v2/farcaster/cast") that batch.map(...) makes,
\* one per hash and in order, before the first of them is resumed.
RECURSIVE BatchPasses(_, _, _, _)
BatchPasses(hashes, globalReqs, endpointReqs, now) ==
    IF hashes = <<>>
    THEN [global |-> globalReqs, reqs |-> endpointReqs, passes |-> <<>>]
    ELSE LET r == waitForSlot(globalReqs, endpointReqs, now)
             rest == BatchPasses(Tail(hashes), r.global, r.reqs, now)
         IN  [global |-> rest.global, reqs |-> rest.reqs,
              passes |-> <<r>> \o rest.passes]


\* an answer that renders what was accumulated before the error
OnErrorPartial(casts) == [status |-> 200, casts |-> casts]

\* the catch of app.get("/"): the answer to a request that threw
OnError(casts) == [status |-> 500, casts |-> <<>>]

\* ------------------------------------------------------------ initial states

ParamSpace ==
    [ all : BOOLEAN, limit : 0..MaxLimit, includeReplies : BOOLEAN,
      includeParents : BOOLEAN, sortOrder : SortOrders,
      username : {""} \cup Usernames ]      \* username "": the request names a fid

NoParams ==
    [ all |-> FALSE, limit |-> 0, includeReplies |-> FALSE,
      includeParents |-> FALSE, sortOrder |-> "", username |-> "" ]

\* the module-level state of index.ts after construction
ServerInit ==
    /\ clock = 1
    /\ globalRequests = <<>>
    /\ endpointRequests = [e \in Endpoints |-> <<>>]
    /\ admitted = [e \in Endpoints |-> <<>>]
    /\ cache = [k \in CacheKeys |-> NoEntry]
    /\ serverStored = [k \in CacheKeys |-> NeverStored]
    /\ lastRead = NoRead

\* a client after construction
ClientInit ==
    /\ estimateCache = [f \in Fingerprints |-> NoCached]
    /\ estimateInflight = [f \in Fingerprints |-> 0]
    /\ clientStored = [f \in Fingerprints |-> NeverStored]
    /\ prevStored = [f \in Fingerprints |-> NeverStored]
    /\ estimateCall = NoOptions
    /\ estimateResult = NoEstimate

\* no client helper is being applied
PricingIdle ==
    /\ optsA = NoOptions
    /\ freeA = ""
    /\ fpA = ""
    /\ keyA = ""
    /\ pricingPc = "idle"
    /\ urlA = NoUrl

\* no call of client.fetch is under way
PayIdle ==
    /\ hasSigner = FALSE
    /\ payPc = "idle"
    /\ attempts = 0
    /\ signed = 0
    /\ authorized = <<>>
    /\ responses = <<>>
    /\ timerDeadline = 0
    /\ aborted = FALSE
    /\ startedAt = 0
    /\ settledAt = 0
    /\ result = NoResult

\* c.req.query() of a request without parameters
NoQuery == [k \in {} |-> ""]

\* no call of resolveFid is under way
ResolveIdle ==
    /\ resolvePc = [r \in Callers |-> "idle"]
    /\ resolveName = [r \in Callers |-> ""]
    /\ resolveMissAt = [r \in Callers |-> 0]
    /\ resolveWroteAt = [r \in Callers |-> 0]

ExtIdle == PricingIdle /\ PayIdle /\ query = NoQuery /\ ResolveIdle

CallersIdle ==
    /\ callerPc = [c \in Callers |-> "idle"]
    /\ callerEndpoint = [c \in Callers |-> CastsEndpoint]
    /\ callerWake = [c \in Callers |-> 0]
    /\ callerWoke = [c \in Callers |-> FALSE]

RequestInit(pc) ==
    /\ reqPc = pc
    /\ reqWake = 0
    /\ allCasts = <<>>
    /\ cursor = 0
    /\ parentHashes = <<>>
    /\ batchStart = 0
    /\ lookup = [h \in ParentHashes |-> "idle"]
    /\ lookupWake = [h \in ParentHashes |-> 0]
    /\ parentMap = [h \in ParentHashes |-> NoCast]
    /\ outbound = [a \in Apis |-> 0]
    /\ error = ""
    /\ response = [status |-> 0, casts |-> <<>>]

NoRequest ==
    /\ dataset = <<>>
    /\ pageSize = 1
    /\ params = NoParams
    /\ RequestInit("idle")

\* ------------------------------------------- concurrent callers (SpecRL)

RLInit == ServerInit /\ ClientInit /\ CallersIdle /\ NoRequest /\ ExtIdle

\* time passes
Tick ==
    /\ clock < MaxTime
    /\ clock' = clock + 1
    /\ UNCHANGED <<globalRequests, endpointRequests, admitted, callerVars,
                   inputVars, extVars, reqVars, cacheVars>>

\* one pass r of caller c through waitForSlot(endpoint); woke: it is a retry
CallerPass(c, endpoint, r, woke) ==
    /\ ApplyPass(endpoint, r, clock)
    /\ callerPc' = [callerPc EXCEPT ![c] = IF r.admit THEN "idle" ELSE "waiting"]
    /\ callerEndpoint' = [callerEndpoint EXCEPT
                             ![c] = IF r.admit THEN CastsEndpoint ELSE endpoint]
    /\ callerWake' = [callerWake EXCEPT ![c] = r.wake]
    /\ callerWoke' = [callerWoke EXCEPT ![c] = woke /\ ~r.admit]
    /\ UNCHANGED <<clock, inputVars, extVars, reqVars, cacheVars>>

\* a caller enters waitForSlot(endpoint)
CallWaitForSlot(c, endpoint) ==
    /\ callerPc[c] = "idle"
    /\ CallerPass(c, endpoint,
                  waitForSlot(globalRequests, endpointRequests[endpoint], clock),
                  FALSE)

\* the setTimeout of a blocked caller fires: "return this.waitForSlot(endpoint)"
RetryWaitForSlot(c) ==
    /\ callerPc[c] = "waiting"
    /\ clock >= callerWake[c]
    /\ CallerPass(c, callerEndpoint[c],
                  Retry(globalRequests, endpointRequests[callerEndpoint[c]], clock),
                  TRUE)

RLNext ==
    \/ Tick
    \/ \E c \in Callers, e \in Endpoints : CallWaitForSlot(c, e)
    \/ \E c \in Callers : RetryWaitForSlot(c)

SpecRL == RLInit /\ [][RLNext]_vars

\* --------------- finitely many calls, time that keeps advancing (SpecLive)

\* time passes: freely up to MaxTime, and afterwards for as long as a caller
\* is waiting for its timer
LiveTick ==
    /\ \/ clock < MaxTime
       \/ \E c \in Callers : callerPc[c] = "waiting" /\ clock < callerWake[c]
    /\ clock' = clock + 1
    /\ UNCHANGED <<globalRequests, endpointRequests, admitted, callerVars,
                   inputVars, extVars, reqVars, cacheVars>>

\* the calls of waitForSlot made so far: those admitted and those waiting
CallsMade ==
    Len(admitted[CastsEndpoint]) + Len(admitted[CastEndpoint])
        + Cardinality({c \in Callers : callerPc[c] = "waiting"})

\* a finite number of calls of waitForSlot is made: at most MaxCalls
LiveCall(c, endpoint) ==
    /\ CallsMade < MaxCalls
    /\ CallWaitForSlot(c, endpoint)

LiveNext ==
    \/ LiveTick
    \/ \E c \in Callers, e \in Endpoints : LiveCall(c, e)
    \/ \E c \in Callers : RetryWaitForSlot(c)

\* time keeps advancing and a timer that is due fires
LiveFairness ==
    /\ WF_vars(LiveTick)
    /\ \A c \in Callers : WF_vars(RetryWaitForSlot(c))

SpecLive == RLInit /\ [][LiveNext]_vars /\ LiveFairness

\* ------------------------------------------------ one request (SpecFetch)

FetchInit ==
    /\ ServerInit
    /\ ClientInit
    /\ CallersIdle
    /\ dataset \in SeqsUpTo({NoParent} \cup ParentHashes, MaxCasts)
    /\ pageSize \in 1..PageSize
    /\ params \in ParamSpace
    /\ RequestInit("start")
    /\ ExtIdle

Issue(api) == outbound' = [outbound EXCEPT ![api] = @ + 1]

\* the request throws: app.get's catch answers
Fail(api) ==
    /\ reqPc' = "failed"
    /\ error' = api
    /\ response' = OnError(allCasts)

\* the provider reports no user: an Error is thrown, app.get's catch answers
NotFound ==
    /\ reqPc' = "failed"
    /\ error' = UserNotFound
    /\ response' = OnError(allCasts)

\* app.get("/") calls fetchUserData: a fid goes to fetchBulkUsers, a username
\* through resolveFid (cache, then lookupUserByUsername)
FetchUserData ==
    /\ reqPc = "start"
    /\ IF params.username = ""
       THEN /\ Issue("fetchBulkUsers")
            /\ reqPc' = "awaitBulkUsers"
            /\ UNCHANGED <<cache, serverStored, lastRead>>
       ELSE LET key == "fid:" \o params.username
            IN  /\ ServerGet(key)
                /\ IF getCached(cache, key, clock) # 0
                   THEN Issue("fetchBulkUsers") /\ reqPc' = "awaitBulkUsers"
                   ELSE Issue("lookupUserByUsername") /\ reqPc' = "awaitLookupUser"
    /\ UNCHANGED <<rlVars, callerVars, inputVars, extVars, reqWake, allCasts, cursor,
                   parentVars, error, response, clientVars>>

\* lookupUserByUsername answers with a user: setCache, then fetchBulkUsers
LookupUserReturns ==
    /\ reqPc = "awaitLookupUser"
    /\ ServerSet("fid:" \o params.username, 1, FID_TTL_MS)
    /\ Issue("fetchBulkUsers")
    /\ reqPc' = "awaitBulkUsers"
    /\ UNCHANGED <<rlVars, callerVars, inputVars, extVars, reqWake, allCasts, cursor,
                   parentVars, error, response, clientVars>>

\* lookupUserByUsername answers without a fid: resolveFid throws
\* "User not found" (index.ts:94) and the catch of app.get answers
LookupUserNotFound ==
    /\ reqPc = "awaitLookupUser"
    /\ NotFound
    /\ UNCHANGED <<rlVars, callerVars, inputVars, extVars, reqWake, allCasts, cursor,
                   parentVars, outbound, cacheVars>>

\* lookupUserByUsername throws
LookupUserFails ==
    /\ reqPc = "awaitLookupUser"
    /\ Fail("lookupUserByUsername")
    /\ UNCHANGED <<rlVars, callerVars, inputVars, extVars, reqWake, allCasts, cursor,
                   parentVars, outbound, cacheVars>>

\* fetchBulkUsers answers with the user: fetchCasts is entered
BulkUsersReturns ==
    /\ reqPc = "awaitBulkUsers"
    /\ reqPc' = "pageSlot"
    /\ UNCHANGED <<rlVars, callerVars, inputVars, extVars, reqWake, allCasts, cursor,
                   parentVars, outbound, error, response, cacheVars>>

\* fetchBulkUsers answers without the user: fetchUserData throws
\* "User not found" (index.ts:141) and the catch of app.get answers
BulkUsersNotFound ==
    /\ reqPc = "awaitBulkUsers"
    /\ NotFound
    /\ UNCHANGED <<rlVars, callerVars, inputVars, extVars, reqWake, allCasts, cursor,
                   parentVars, outbound, cacheVars>>

\* fetchBulkUsers throws
BulkUsersFails ==
    /\ reqPc = "awaitBulkUsers"
    /\ Fail("fetchBulkUsers")
    /\ UNCHANGED <<rlVars, callerVars, inputVars, extVars, reqWake, allCasts, cursor,
                   parentVars, outbound, cacheVars>>

\* the page loop's "await rateLimiter.waitForSlot(...)": one pass, made on
\* entry or when the timer of the previous pass fires; once admitted,
\* fetchCastsForUser is issued
PageWaitForSlot ==
    /\ reqPc \in {"pageSlot", "pageWaiting"}
    /\ LET now == IF reqPc = "pageWaiting" THEN Max(clock, reqWake) ELSE clock
           r == waitForSlot(globalRequests, endpointRequests[CastsEndpoint], now)
       IN  /\ clock' = now
           /\ ApplyPass(CastsEndpoint, r, now)
           /\ reqWake' = r.wake
           /\ IF r.admit
              THEN Issue("fetchCastsForUser") /\ reqPc' = "awaitPage"
              ELSE reqPc' = "pageWaiting" /\ UNCHANGED outbound
    /\ UNCHANGED <<callerVars, inputVars, extVars, allCasts, cursor, parentVars, error,
                   response, cacheVars>>

\* fetchCastsForUser answers: filter, accumulate, take the cursor, loop or leave
PageReturns ==
    /\ reqPc = "awaitPage"
    /\ LET res == UpstreamPage(dataset, cursor)
           filtered == FilterPage(res.casts, params.includeReplies)
       IN  /\ allCasts' = allCasts \o filtered
           /\ cursor' = res.next
           /\ reqPc' = IF ContinuePaging(res.next, params, Len(allCasts) + Len(filtered))
                       THEN "pageSlot" ELSE "sorting"
    /\ UNCHANGED <<rlVars, callerVars, inputVars, extVars, reqWake, parentVars, outbound,
                   error, response, cacheVars>>

\* fetchCastsForUser throws
PageThrows ==
    /\ reqPc = "awaitPage"
    /\ Fail("fetchCastsForUser")
    /\ UNCHANGED <<rlVars, callerVars, inputVars, extVars, reqWake, allCasts, cursor,
                   parentVars, outbound, cacheVars>>

\* after the loop: the reversal, then the parent hashes if parents are wanted
SortCasts ==
    /\ reqPc = "sorting"
    /\ LET sorted == ApplySortOrder(allCasts, params)
       IN  /\ allCasts' = sorted
           /\ IF includeParents(params)
              THEN /\ parentHashes' = DistinctParents(sorted, {})
                   /\ reqPc' = "batch"
              ELSE /\ reqPc' = "truncate"
                   /\ UNCHANGED parentHashes
    /\ UNCHANGED <<rlVars, callerVars, inputVars, extVars, reqWake, cursor, batchStart,
                   lookup, lookupWake, parentMap, outbound, error, response,
                   cacheVars>>

\* a batch starts: batch.map(...) makes every callback's first pass of
\* waitForSlot; the admitted ones issue lookupCastByHashOrUrl
StartBatch ==
    /\ reqPc = "batch"
    /\ batchStart < Len(parentHashes)
    /\ LET batch == BatchSeq(parentHashes, batchStart)
           b == BatchPasses(batch, globalRequests, endpointRequests[CastEndpoint], clock)
           idx(h) == CHOOSE k \in 1..Len(batch) : batch[k] = h
           nAdmitted == Cardinality({k \in 1..Len(batch) : b.passes[k].admit})
       IN  /\ globalRequests' = b.global
           /\ endpointRequests' = [endpointRequests EXCEPT ![CastEndpoint] = b.reqs]
           /\ admitted' = [admitted EXCEPT ![CastEndpoint] =
                              @ \o [k \in 1..nAdmitted |-> clock]]
           /\ lookup' = [h \in ParentHashes |->
                            IF h \in Batch(parentHashes, batchStart)
                            THEN (IF b.passes[idx(h)].admit THEN "inflight" ELSE "waiting")
                            ELSE lookup[h]]
           /\ lookupWake' = [h \in ParentHashes |->
                            IF h \in Batch(parentHashes, batchStart)
                            THEN b.passes[idx(h)].wake ELSE lookupWake[h]]
           /\ outbound' = [outbound EXCEPT !["lookupCastByHashOrUrl"] = @ + nAdmitted]
    /\ reqPc' = "awaitBatch"
    /\ UNCHANGED <<clock, callerVars, inputVars, extVars, reqWake, allCasts, cursor,
                   parentHashes, batchStart, parentMap, error, response, cacheVars>>

\* the timer of a blocked lookup fires: its waitForSlot makes another pass
LookupRetry(h) ==
    /\ reqPc = "awaitBatch"
    /\ lookup[h] = "waiting"
    /\ LET now == Max(clock, lookupWake[h])
           r == waitForSlot(globalRequests, endpointRequests[CastEndpoint], now)
       IN  /\ clock' = now
           /\ ApplyPass(CastEndpoint, r, now)
           /\ lookupWake' = [lookupWake EXCEPT ![h] = r.wake]
           /\ IF r.admit
              THEN /\ lookup' = [lookup EXCEPT ![h] = "inflight"]
                   /\ Issue("lookupCastByHashOrUrl")
              ELSE UNCHANGED <<lookup, outbound>>
    /\ UNCHANGED <<callerVars, inputVars, extVars, reqPc, reqWake, allCasts, cursor,
                   parentHashes, batchStart, parentMap, error, response, cacheVars>>

\* lookupCastByHashOrUrl settles: with the cast ("ok"), without one ("null"),
\* or it throws and the callback's catch returns [hash, null] ("error")
LookupReturns(h, outcome) ==
    /\ reqPc = "awaitBatch"
    /\ lookup[h] = "inflight"
    /\ lookup' = [lookup EXCEPT ![h] = outcome]
    /\ UNCHANGED <<rlVars, callerVars, inputVars, extVars, reqPc, reqWake, allCasts, cursor,
                   parentHashes, batchStart, lookupWake, parentMap, outbound,
                   error, response, cacheVars>>

\* Promise.all resolves: the batch's results go into parentMap, i += batchSize
FinishBatch ==
    /\ reqPc = "awaitBatch"
    /\ \A h \in Batch(parentHashes, batchStart) : lookup[h] \in Settled
    /\ parentMap' = MergeBatch(parentMap, Batch(parentHashes, batchStart), lookup)
    /\ batchStart' = batchStart + batchSize
    /\ reqPc' = "batch"
    /\ UNCHANGED <<rlVars, callerVars, inputVars, extVars, reqWake, allCasts, cursor,
                   parentHashes, lookup, lookupWake, outbound, error, response,
                   cacheVars>>

\* the batch loop is over: parentCast is set on the casts whose parent was found
FinishParents ==
    /\ reqPc = "batch"
    /\ batchStart >= Len(parentHashes)
    /\ allCasts' = LinkParents(allCasts, parentMap)
    /\ reqPc' = "truncate"
    /\ UNCHANGED <<rlVars, callerVars, inputVars, extVars, reqWake, cursor, parentVars,
                   outbound, error, response, cacheVars>>

\* fetchCasts returns its slice; fetchUserData and app.get answer with it
ReturnCasts ==
    /\ reqPc = "truncate"
    /\ response' = [status |-> 200, casts |-> Truncate(allCasts, params)]
    /\ reqPc' = "done"
    /\ UNCHANGED <<rlVars, callerVars, inputVars, extVars, reqWake, allCasts, cursor,
                   parentVars, outbound, error, cacheVars>>

FetchNext ==
    \/ FetchUserData
    \/ LookupUserReturns
    \/ LookupUserNotFound
    \/ LookupUserFails
    \/ BulkUsersReturns
    \/ BulkUsersNotFound
    \/ BulkUsersFails
    \/ PageWaitForSlot
    \/ PageReturns
    \/ PageThrows
    \/ SortCasts
    \/ StartBatch
    \/ \E h \in ParentHashes : LookupRetry(h)
    \/ \E h \in ParentHashes, outcome \in Settled : LookupReturns(h, outcome)
    \/ FinishBatch
    \/ FinishParents
    \/ ReturnCasts

SpecFetch == FetchInit /\ [][FetchNext]_vars

\* every await of the request settles: the provider answers or throws, and
\* the timer of a rate-limiter wait fires
SpecFetchFair == SpecFetch /\ WF_vars(FetchNext)

\* ------------------------------------------------- the caches (SpecCache)

CacheInit == ServerInit /\ ClientInit /\ CallersIdle /\ NoRequest /\ ExtIdle

\* some caller stores a value: setCache(key, data, ttl)
SetCache(key, data, ttl) ==
    /\ ServerSet(key, data, ttl)
    /\ UNCHANGED <<rlVars, callerVars, inputVars, extVars, reqVars, clientVars>>

\* some caller reads: getCached(key)
GetCached(key) ==
    /\ ServerGet(key)
    /\ UNCHANGED <<rlVars, callerVars, inputVars, extVars, reqVars, clientVars>>

\* getServerEstimate for options that are not free tier, up to its await: the
\* cached estimate is returned if it is live, else /estimate is requested
EstimateLookup(fp) ==
    /\ lastRead' = [which |-> "client", key |-> fp, at |-> clock,
                    value |-> IF EstimateLive(estimateCache[fp], clock)
                              THEN estimateCache[fp].estimate ELSE 0,
                    stored |-> clientStored[fp]]
    /\ IF EstimateLive(estimateCache[fp], clock)
       THEN UNCHANGED estimateInflight
       ELSE /\ estimateInflight[fp] < MaxInflight
            /\ estimateInflight' = [estimateInflight EXCEPT ![fp] = @ + 1]
    /\ estimateResult' = IF EstimateLive(estimateCache[fp], clock)
                         THEN CachedEstimate(fp, estimateCache[fp].estimate)
                         ELSE estimateResult
    /\ UNCHANGED <<rlVars, callerVars, inputVars, otherExtVars, reqVars, cache,
                   serverStored, estimateCache, clientStored, prevStored>>

\* getServerEstimate(options) up to its first await (config.ts:244-260)
GetServerEstimate(options) ==
    /\ estimateCall' = options
    /\ IF isFreeTier(options)
       THEN /\ estimateResult' = FreeEstimate
            /\ UNCHANGED <<rlVars, callerVars, inputVars, otherExtVars, reqVars,
                           cacheVars, prevStored>>
       ELSE EstimateLookup(getPricingFingerprint(options))

\* /estimate answers OK with an estimate: it is cached and returned
EstimateReturns(fp, estimate) ==
    /\ estimateInflight[fp] > 0
    /\ estimateInflight' = [estimateInflight EXCEPT ![fp] = @ - 1]
    /\ estimateCache' = [estimateCache EXCEPT ![fp] =
                            [estimate |-> estimate, timestamp |-> clock]]
    /\ clientStored' = [clientStored EXCEPT ![fp] =
                            [at |-> clock, ttl |-> ESTIMATE_CACHE_TTL, data |-> estimate]]
    /\ prevStored' = [prevStored EXCEPT ![fp] = clientStored[fp]]
    /\ estimateResult' = FetchedEstimate(fp, estimate)
    /\ UNCHANGED <<rlVars, callerVars, inputVars, otherExtVars, reqVars, cache,
                   serverStored, lastRead, estimateCall>>

\* /estimate answers not OK or the transport throws: null is returned
EstimateFails(fp) ==
    /\ estimateInflight[fp] > 0
    /\ estimateInflight' = [estimateInflight EXCEPT ![fp] = @ - 1]
    /\ estimateResult' = OnEstimateFailure(fp)
    /\ UNCHANGED <<rlVars, callerVars, inputVars, otherExtVars, reqVars, cache,
                   serverStored, estimateCache, clientStored, lastRead,
                   estimateCall, prevStored>>

\* the server cache and its callers
CacheNext ==
    \/ Tick
    \/ \E key \in CacheKeys, data \in 1..2, ttl \in 1..MaxTtl : SetCache(key, data, ttl)
    \/ \E key \in CacheKeys : GetCached(key)

SpecCache == CacheInit /\ [][CacheNext]_vars

\* one LlmFidClient and its estimate cache
ClientNext ==
    \/ Tick
    \/ \E options \in EstimateOptions : GetServerEstimate(options)
    \/ \E fp \in Fingerprints, estimate \in 1..2 : EstimateReturns(fp, estimate)
    \/ \E fp \in Fingerprints : EstimateFails(fp)

SpecClient == CacheInit /\ [][ClientNext]_vars

\* ------------------------- concurrent resolveFid calls (SpecResolve)

\* the usernames the concurrent requests ask for, already normalized
ResolveNames == {"alice", "bob"}

\* the fid the upstream knows for a username
FidOf(name) == IF name = "alice" THEN 1 ELSE 2

resolveFrame ==
    <<rlVars, callerVars, inputVars, reqVars, clientVars, pricingVars, payVars,
      query, estimateVars>>

\* resolveFid up to its await (index.ts:88-93): getCached, and on null the
\* call of lookupUserByUsername
ResolveFid(r, name) ==
    /\ resolvePc[r] = "idle"
    /\ ServerGet("fid:" \o name)
    /\ resolveName' = [resolveName EXCEPT ![r] = name]
    /\ IF getCached(cache, "fid:" \o name, clock) # 0
       THEN /\ resolvePc' = [resolvePc EXCEPT ![r] = "returned"]
            /\ UNCHANGED resolveMissAt
       ELSE /\ resolvePc' = [resolvePc EXCEPT ![r] = "awaitLookup"]
            /\ resolveMissAt' = [resolveMissAt EXCEPT ![r] = clock]
    /\ UNCHANGED <<resolveWroteAt, resolveFrame>>

\* lookupUserByUsername answers with a user: setCache and return (index.ts:96-97)
ResolveLookupReturns(r) ==
    /\ resolvePc[r] = "awaitLookup"
    /\ ServerSet("fid:" \o resolveName[r], FidOf(resolveName[r]), FID_TTL_MS)
    /\ resolvePc' = [resolvePc EXCEPT ![r] = "returned"]
    /\ resolveWroteAt' = [resolveWroteAt EXCEPT ![r] = clock]
    /\ UNCHANGED <<resolveName, resolveMissAt, resolveFrame>>

\* lookupUserByUsername answers without a fid, or rejects: resolveFid throws
\* before setCache (index.ts:93-94)
ResolveLookupFails(r) ==
    /\ resolvePc[r] = "awaitLookup"
    /\ resolvePc' = [resolvePc EXCEPT ![r] = "threw"]
    /\ UNCHANGED <<cacheVars, resolveName, resolveMissAt, resolveWroteAt,
                   resolveFrame>>

ResolveNext ==
    \/ Tick
    \/ \E r \in Callers, name \in ResolveNames : ResolveFid(r, name)
    \/ \E r \in Callers : ResolveLookupReturns(r)
    \/ \E r \in Callers : ResolveLookupFails(r)

SpecResolve == CacheInit /\ [][ResolveNext]_vars

\* ====================================================================
\* Properties
\* ====================================================================

\* the admissions of endpoint e in the trailing window that ends at time t
AdmittedIn(e, t) ==
    Len(SelectSeq(admitted[e], LAMBDA ts : ts <= t /\ t - ts < WINDOW_MS))

GlobalAdmittedIn(t) == AdmittedIn(CastsEndpoint, t) + AdmittedIn(CastEndpoint, t)

TotalAdmitted == Len(admitted[CastsEndpoint]) + Len(admitted[CastEndpoint])

TotalOutbound ==
    outbound["lookupUserByUsername"] + outbound["fetchBulkUsers"]
        + outbound["fetchCastsForUser"] + outbound["lookupCastByHashOrUrl"]

\* C1: whatever the interleaving of waitForSlot calls, in every trailing
\* window the admissions of one endpoint stay within ENDPOINT_LIMIT and the
\* admissions over all endpoints stay within GLOBAL_LIMIT.
C1_WindowCeilings ==
    \A t \in 1..clock :
        /\ \A e \in Endpoints : AdmittedIn(e, t) <= ENDPOINT_LIMIT
        /\ GlobalAdmittedIn(t) <= GLOBAL_LIMIT

\* C1 witness: the global window and an endpoint window are full, a caller is
\* held back, and more calls than the ceiling have been admitted over time.
C1_Witness ==
    /\ GlobalAdmittedIn(clock) = GLOBAL_LIMIT
    /\ \E e \in Endpoints : AdmittedIn(e, clock) = ENDPOINT_LIMIT
    /\ \E c \in Callers : callerPc[c] = "waiting"
    /\ TotalAdmitted > GLOBAL_LIMIT

\* C2 (as claimed): every call issued to the upstream while serving a request
\* was preceded by an admission of its own, so the calls issued never
\* outnumber the admissions recorded.
C2_EveryCallAdmitted == TotalOutbound <= TotalAdmitted

\* --------------------------------- the client's pure helpers (SpecPricing)

PricingInit ==
    /\ ServerInit /\ ClientInit /\ CallersIdle /\ NoRequest /\ PayIdle
    /\ query = NoQuery /\ ResolveIdle
    /\ optsA \in OptionSpace
    /\ freeA = ""
    /\ fpA = ""
    /\ keyA = ""
    /\ urlA = NoUrl
    /\ pricingPc = "getUrl"

pricingFrame ==
    <<rlVars, callerVars, inputVars, reqVars, cacheVars, payVars, query,
      resolveVars, estimateVars, optsA>>

\* client.getUrl(optsA)
GetUrlCall ==
    /\ pricingPc = "getUrl"
    /\ urlA' = getUrl(optsA)
    /\ pricingPc' = "isFreeTier"
    /\ UNCHANGED <<pricingFrame, freeA, fpA, keyA>>

\* getServerEstimate, config.ts:246-248: a free request returns at once
IsFreeTierCall ==
    /\ pricingPc = "isFreeTier"
    /\ freeA' = IF isFreeTier(optsA) THEN "true" ELSE "false"
    /\ pricingPc' = IF isFreeTier(optsA) THEN "resolveFid"
                    ELSE "getPricingFingerprint"
    /\ UNCHANGED <<pricingFrame, fpA, keyA, urlA>>

\* getServerEstimate, config.ts:251: the key of the estimate cache
FingerprintCall ==
    /\ pricingPc = "getPricingFingerprint"
    /\ fpA' = getPricingFingerprint(optsA)
    /\ pricingPc' = "resolveFid"
    /\ UNCHANGED <<pricingFrame, freeA, keyA, urlA>>

\* the server is asked about a username: resolveFid builds its cache key
ResolveFidKey ==
    /\ pricingPc = "resolveFid"
    /\ optsA.username # NoName
    /\ keyA' = FidCacheKey(optsA.username)
    /\ pricingPc' = "done"
    /\ UNCHANGED <<pricingFrame, freeA, fpA, urlA>>

\* the server is asked about a fid: resolveFid is not called
SkipResolveFid ==
    /\ pricingPc = "resolveFid"
    /\ optsA.username = NoName
    /\ pricingPc' = "done"
    /\ UNCHANGED <<pricingFrame, freeA, fpA, keyA, urlA>>

PricingNext ==
    \/ GetUrlCall
    \/ IsFreeTierCall
    \/ FingerprintCall
    \/ ResolveFidKey
    \/ SkipResolveFid

SpecPricing == PricingInit /\ [][PricingNext]_vars

\* --------------------------------------- one call of client.fetch (SpecPay)

PayOptions == {NoOptions, [NoOptions EXCEPT !.fid = 3]}

PayInit ==
    /\ ServerInit /\ ClientInit /\ CallersIdle /\ NoRequest
    /\ query = NoQuery /\ ResolveIdle
    /\ optsA \in PayOptions
    /\ freeA = "" /\ fpA = "" /\ keyA = "" /\ pricingPc = "idle"
    /\ urlA = NoUrl
    /\ hasSigner \in BOOLEAN
    /\ payPc = "start"
    /\ attempts = 0
    /\ signed = 0
    /\ authorized = <<>>
    /\ responses = <<>>
    /\ timerDeadline = 0
    /\ aborted = FALSE
    /\ startedAt = 0
    /\ settledAt = 0
    /\ result = NoResult

payFrame ==
    <<globalRequests, endpointRequests, admitted, callerVars, inputVars,
      reqVars, cacheVars, pricingVars, query, resolveVars, estimateVars,
      hasSigner>>

\* fetch rejects: the catch clears the timer and throws (config.ts:216-226)
Throws(message) ==
    /\ payPc' = "threw"
    /\ result' = Threw(message)
    /\ settledAt' = clock
    /\ timerDeadline' = 0

\* time passes; a timer that is due fires before any later instant
PayTick ==
    /\ clock < MaxTime
    /\ ~(timerDeadline # 0 /\ clock >= timerDeadline)
    /\ clock' = clock + 1
    /\ UNCHANGED <<payFrame, payPc, attempts, signed, authorized, responses,
                   timerDeadline, aborted, startedAt, settledAt, result>>

\* client.fetch(options) up to its first await (config.ts:189-207)
StartFetch ==
    /\ payPc = "start"
    /\ startedAt' = clock
    /\ IF optsA.fid = 0 /\ optsA.username = NoName
       THEN /\ payPc' = "threw"
            /\ result' = Threw("Either fid or username is required")
            /\ settledAt' = clock
            /\ UNCHANGED <<attempts, authorized, timerDeadline>>
       ELSE /\ timerDeadline' = clock + DEFAULT_TIMEOUT
            /\ attempts' = 1
            /\ authorized' = <<FALSE>>
            /\ payPc' = "attempt1"
            /\ UNCHANGED <<result, settledAt>>
    /\ UNCHANGED <<clock, payFrame, signed, responses, aborted>>

\* the wrapped fetch receives a payment-required response to the first
\* attempt and turns to the signer
PaymentChallenge ==
    /\ payPc = "attempt1"
    /\ SelectFetchFn(hasSigner) = "paymentFetch"
    /\ \E r \in Responses :
           /\ r.status = 402
           /\ responses' = Append(responses, r)
    /\ payPc' = "signing"
    /\ UNCHANGED <<clock, payFrame, attempts, signed, authorized,
                   timerDeadline, aborted, startedAt, settledAt, result>>

\* the signer produces the authorization: the request is retried once with
\* it attached, unless the signal was aborted in the meantime
SignerReturns ==
    /\ payPc = "signing"
    /\ signed' = signed + 1
    /\ IF aborted
       THEN /\ Throws("Request timed out")
            /\ UNCHANGED <<attempts, authorized>>
       ELSE /\ attempts' = attempts + 1
            /\ authorized' = Append(authorized, TRUE)
            /\ payPc' = "attempt2"
            /\ UNCHANGED <<timerDeadline, settledAt, result>>
    /\ UNCHANGED <<clock, payFrame, responses, aborted, startedAt>>

\* the signer fails: the wrapped fetch rejects
SignerFails ==
    /\ payPc = "signing"
    /\ signed' = signed + 1
    /\ Throws("signer")
    /\ UNCHANGED <<clock, payFrame, attempts, authorized, responses, aborted,
                   startedAt>>

\* fetchFn resolves (config.ts:202-209): the timer is cleared, then the body
\* is awaited.  The wrapped fetch resolves with any answer to the retry and
\* with any answer but payment-required to the first attempt.
FetchFnResolves ==
    /\ payPc \in {"attempt1", "attempt2"}
    /\ \E r \in Responses :
           /\ ~(payPc = "attempt1" /\ r.status = 402
                 /\ SelectFetchFn(hasSigner) = "paymentFetch")
           /\ responses' = Append(responses, r)
    /\ timerDeadline' = 0
    /\ payPc' = "body"
    /\ UNCHANGED <<clock, payFrame, attempts, signed, authorized, aborted,
                   startedAt, settledAt, result>>

\* the network call fails: fetchFn rejects
NetworkFails ==
    /\ payPc \in {"attempt1", "attempt2"}
    /\ Throws("network")
    /\ UNCHANGED <<clock, payFrame, attempts, signed, authorized, responses,
                   aborted, startedAt>>

\* the timer of config.ts:199 fires: controller.abort(); a network call in
\* flight rejects with AbortError and fetch throws the timeout error
TimeoutFires ==
    /\ timerDeadline # 0
    /\ clock >= timerDeadline
    /\ aborted' = TRUE
    /\ IF payPc \in {"attempt1", "attempt2"}
       THEN Throws("Request timed out")
       ELSE /\ timerDeadline' = 0
            /\ UNCHANGED <<payPc, result, settledAt>>
    /\ UNCHANGED <<clock, payFrame, attempts, signed, authorized, responses,
                   startedAt>>

\* response.text() resolves: fetch returns (config.ts:211-215)
BodyRead ==
    /\ payPc = "body"
    /\ result' = FetchResultOf(responses[Len(responses)])
    /\ payPc' = IF result'.kind = "returned" THEN "returned" ELSE "threw"
    /\ settledAt' = clock
    /\ UNCHANGED <<clock, payFrame, attempts, signed, authorized, responses,
                   timerDeadline, aborted, startedAt>>

\* response.text() rejects: the catch throws the error
BodyFails ==
    /\ payPc = "body"
    /\ Throws("network")
    /\ UNCHANGED <<clock, payFrame, attempts, signed, authorized, responses,
                   aborted, startedAt>>

PayNext ==
    \/ PayTick
    \/ StartFetch
    \/ PaymentChallenge
    \/ SignerReturns
    \/ SignerFails
    \/ FetchFnResolves
    \/ NetworkFails
    \/ TimeoutFires
    \/ BodyRead
    \/ BodyFails

SpecPay == PayInit /\ [][PayNext]_vars

\* ----------------------------- validation at the boundary (SpecHandler)

\* the text a query parameter can carry
RawFid == {"", "0", "-1", "abc", "1"}
RawName == {NoName} \cup {n \in ClientNames : Str(Normalize(n)) \in Usernames}
RawLimit == {"", "0", "abc", "2"}
RawSort == {"", "newest", "oldest", "random"}
RawBool == {"true", "TRUE", "yes"}
QueryKeys == {"fid", "username", "limit", "sortOrder", "all"}

\* every query: a subset of the keys, each with one of its texts
Queries ==
    { [k \in K |-> f[k]] :
        f \in [fid : RawFid, username : RawName, limit : RawLimit,
               sortOrder : RawSort, all : RawBool],
        K \in SUBSET QueryKeys }

\* the integers whose decimal text a request of the model can carry
NumberTexts == -1..50

\* Number(text): the integer whose decimal text it is, 0 for the empty text,
\* NaN for any other text
Number(text) ==
    IF text = "" THEN [nan |-> FALSE, n |-> 0]
    ELSE IF \E n \in NumberTexts : ToString(n) = text
         THEN [nan |-> FALSE, n |-> CHOOSE n \in NumberTexts : ToString(n) = text]
         ELSE [nan |-> TRUE, n |-> 0]

\* q.key is truthy: the parameter is present and its text is not empty
HasText(q, key) == key \in DOMAIN q /\ q[key] # ""
HasName(q) == "username" \in DOMAIN q /\ q.username # NoName

\* isNaN(Number(text)) || Number(text) <= 0
NotPositive(text) == Number(text).nan \/ Number(text).n <= 0

\* String(q.key).toLowerCase() === "true"
IsTrue(q, key) == key \in DOMAIN q /\ q[key] \in {"true", "TRUE"}

\* a validation that lets every sortOrder pass
ValidateAnySort(q) ==
    IF Cardinality(DOMAIN q) = 0 THEN 302
    ELSE IF ~HasText(q, "fid") /\ ~HasName(q) THEN 400
    ELSE IF HasText(q, "fid") /\ NotPositive(q.fid) THEN 400
    ELSE IF HasText(q, "limit") /\ NotPositive(q.limit) THEN 400
    ELSE 0

\* the early returns of app.get("/") (index.ts:282-296): the status answered,
\* 0 when the request passes
Validate(q) ==
    IF Cardinality(DOMAIN q) = 0 THEN 302
    ELSE IF ~HasText(q, "fid") /\ ~HasName(q) THEN 400
    ELSE IF HasText(q, "fid") /\ NotPositive(q.fid) THEN 400
    ELSE IF HasText(q, "limit") /\ NotPositive(q.limit) THEN 400
    ELSE IF HasText(q, "sortOrder") /\ q.sortOrder \notin {"newest", "oldest"}
         THEN 400
    ELSE 0

\* q after "Parse params" (index.ts:286-307), as fetchUserData receives it:
\* q.fid || q.username picks the fid when both are given
ParseParams(q) ==
    [ all |-> IsTrue(q, "all"),
      limit |-> IF HasText(q, "limit") THEN Number(q.limit).n ELSE 0,
      includeReplies |-> IsTrue(q, "includeReplies"),
      includeParents |-> IsTrue(q, "includeParents"),
      sortOrder |-> IF "sortOrder" \in DOMAIN q THEN q.sortOrder ELSE "",
      username |-> IF HasText(q, "fid") THEN ""
                   ELSE Str(Normalize(q.username)) ]

HandlerInit ==
    /\ ServerInit /\ ClientInit /\ CallersIdle /\ PricingIdle /\ PayIdle
    /\ ResolveIdle
    /\ dataset = <<>>
    /\ pageSize = 1
    /\ params = NoParams
    /\ RequestInit("received")
    /\ query \in Queries

\* app.get("/") up to its await (index.ts:278-309)
HandleGet ==
    /\ reqPc = "received"
    /\ IF Validate(query) # 0
       THEN /\ response' = [status |-> Validate(query), casts |-> <<>>]
            /\ reqPc' = "answered"
            /\ UNCHANGED params
       ELSE /\ params' = ParseParams(query)
            /\ reqPc' = "start"
            /\ UNCHANGED response
    /\ UNCHANGED <<rlVars, callerVars, dataset, pageSize, extVars, reqWake,
                   allCasts, cursor, parentVars, outbound, error, cacheVars>>

HandlerNext ==
    \/ HandleGet
    \/ FetchUserData

SpecHandler == HandlerInit /\ [][HandlerNext]_vars

\* ------------------------------------------- what the history prescribes

Done == reqPc = "done"
Bounded == ~fetchAll(params)
Oldest == params.sortOrder = "oldest"
RequestedCount == EffectiveLimit(params)
Result == response.casts

Hashes(casts) == [k \in 1..Len(casts) |-> casts[k].hash]

\* the positions of the history that pass the reply filter, newest first
RetainedHashes ==
    SelectSeq([i \in 1..Len(dataset) |-> i],
              LAMBDA i : params.includeReplies = TRUE \/ dataset[i] = NoParent)

FirstN(seq, n) == SubSeq(seq, 1, Min(n, Len(seq)))

\* positions run newest to oldest, so chronological order is descending position
Chronological(casts) ==
    \A k \in 1..Len(casts), l \in 1..Len(casts) :
        k < l => casts[k].timestamp < casts[l].timestamp

ReverseChronological(casts) ==
    \A k \in 1..Len(casts), l \in 1..Len(casts) :
        k < l => casts[k].timestamp > casts[l].timestamp

\* C3 (as claimed): with sortOrder "oldest" and a bounded limit N the answer
\* is the N oldest retained casts of the full history, oldest first.
C3_OldestOfFullHistory ==
    (Done /\ Bounded /\ Oldest) =>
        /\ Hashes(Result) = FirstN(Reverse(RetainedHashes), RequestedCount)
        /\ Chronological(Result)

\* C4: with sortOrder "newest" or omitted and a bounded limit N the answer is
\* the first N retained casts of the full history, newest first.
C4_NewestOfFullHistory ==
    (Done /\ Bounded /\ ~Oldest) =>
        /\ Hashes(Result) = FirstN(RetainedHashes, RequestedCount)
        /\ ReverseChronological(Result)

\* C4 witness: a bounded newest-first answer cut out of a history that has
\* more retained casts than were asked for and more than one page.
C4_Witness ==
    /\ Done /\ Bounded /\ ~Oldest
    /\ params.limit > 0
    /\ Len(RetainedHashes) > RequestedCount
    /\ Len(dataset) > pageSize
    /\ Len(Result) = RequestedCount

\* C5: with all = true the loop runs until the upstream returns no cursor and
\* the answer holds every retained cast, whatever limit was passed.
C5_AllReturnsEverything ==
    (Done /\ ~Bounded) =>
        /\ cursor = 0
        /\ Hashes(Result) = IF Oldest THEN Reverse(RetainedHashes) ELSE RetainedHashes

\* C5 witness: all = true with an explicit limit below the number of casts
\* returned, over more than one page.
C5_Witness ==
    /\ Done /\ ~Bounded
    /\ params.limit > 0
    /\ Len(Result) > params.limit
    /\ outbound["fetchCastsForUser"] > 1

\* C6: without fetch-all the answer never has more than N casts, has exactly N
\* when the history holds at least N casts that pass the reply filter, and has
\* fewer than N only if the cursor was exhausted.
C6_ExactlyRequestedCount ==
    (Done /\ Bounded) =>
        /\ Len(Result) <= RequestedCount
        /\ Len(RetainedHashes) >= RequestedCount => Len(Result) = RequestedCount
        /\ Len(Result) < RequestedCount => cursor = 0

\* C6 witness: exactly N casts answered although a first page, after the
\* reply filter, held fewer than N.
C6_Witness ==
    /\ Done /\ Bounded
    /\ params.limit > 0
    /\ Len(Result) = RequestedCount
    /\ outbound["fetchCastsForUser"] > 1
    /\ \E i \in 1..Len(dataset) : dataset[i] # NoParent
    /\ params.includeReplies = FALSE

\* C7: unless includeReplies is true, no cast accumulated or answered is a reply.
C7_NoRepliesUnlessAsked ==
    params.includeReplies # TRUE =>
        /\ \A k \in 1..Len(Result) : Result[k].parentHash = NoParent
        /\ \A k \in 1..Len(allCasts) : allCasts[k].parentHash = NoParent

\* C7 witness: an answer with casts, from a history that holds replies, to a
\* request that did not ask for replies.
C7_Witness ==
    /\ Done
    /\ params.includeReplies = FALSE
    /\ Len(Result) > 0
    /\ \E i \in 1..Len(dataset) : dataset[i] # NoParent

ParentSet == {parentHashes[k] : k \in 1..Len(parentHashes)}

\* C8: a parent lookup that errors or finds nothing neither fails the request
\* nor its siblings: every parent hash is looked up and settles, a cast whose
\* parent was found carries exactly that parent, a cast whose parent lookup
\* failed carries none.
C8_ParentFailureIsLocal ==
    /\ error # "lookupCastByHashOrUrl"
    /\ (Done /\ params.includeParents) =>
        /\ \A h \in ParentSet : lookup[h] \in Settled
        /\ outbound["lookupCastByHashOrUrl"] = Len(parentHashes)
        /\ \A k \in 1..Len(Result) :
              Result[k].parentHash # NoParent =>
                  Result[k].parentCast =
                      IF lookup[Result[k].parentHash] = "ok"
                      THEN Result[k].parentHash ELSE NoCast

\* C8 witness: in the first batch one lookup threw and its sibling found its
\* cast, and the answer holds a cast of each.
C8_Witness ==
    /\ Done /\ params.includeParents
    /\ Len(parentHashes) >= 2
    /\ lookup[parentHashes[1]] = "error"
    /\ lookup[parentHashes[2]] = "ok"
    /\ \E k \in 1..Len(Result) : Result[k].parentHash = parentHashes[1]
    /\ \E k \in 1..Len(Result) : Result[k].parentCast = parentHashes[2]

\* C9: an error of a page fetch ends the request with that error: the answer
\* is the 500 without any cast, and afterwards no page is fetched again, no
\* parent is looked up and nothing is admitted.
C9_PageErrorIsFatal ==
    [][ /\ (reqPc = "awaitPage" /\ error' = "fetchCastsForUser") =>
              /\ reqPc' = "failed"
              /\ response' = [status |-> 500, casts |-> <<>>]
              /\ outbound' = outbound
        /\ reqPc = "failed" =>
              /\ reqPc' = "failed"
              /\ UNCHANGED <<outbound, admitted, response, error>> ]_vars

\* C9 witness: a request failed by its second page fetch, with casts of the
\* first page accumulated.
C9_Witness ==
    /\ reqPc = "failed"
    /\ error = "fetchCastsForUser"
    /\ Len(allCasts) > 0
    /\ outbound["fetchCastsForUser"] = 2

\* C10 (as claimed): a read before storedAt + ttl returns the stored value and
\* a read at storedAt + ttl or later reports absent (0), in both caches.
C10_TtlBoundary ==
    lastRead.stored # NeverStored =>
        /\ lastRead.at < lastRead.stored.at + lastRead.stored.ttl =>
              lastRead.value = lastRead.stored.data
        /\ lastRead.at >= lastRead.stored.at + lastRead.stored.ttl =>
              lastRead.value = 0

\* ---------------------------------------------------- the client's helpers

\* what the server makes of the request a client sends for the options: the
\* identifier it resolves, the count it serves and the extras it applies
Denotation(options) ==
    LET q == buildQueryString(options)
    IN  [ kind |-> IF q.fid # "" THEN "fid" ELSE "username",
          value |-> IF q.fid # "" THEN q.fid ELSE q.username,
          count |-> IF q.all = "true" THEN "all"
                    ELSE IF q.limit # "" THEN q.limit ELSE ToString(DEFAULT_LIMIT),
          includeReplies |-> q.includeReplies = "true",
          includeParents |-> q.includeParents = "true",
          includeReactions |-> q.includeReactions = "true" ]

\* the options with every omitted field replaced by its default; the limit
\* is not read when all is set
DefaultFill(options) ==
    [ fid |-> options.fid,
      username |-> options.username,
      all |-> Truthy(options.all),
      limit |-> IF Truthy(options.all) THEN 0
                ELSE IF options.limit # 0 THEN options.limit ELSE 50,
      includeReplies |-> Truthy(options.includeReplies),
      includeParents |-> Truthy(options.includeParents),
      includeReactions |-> Truthy(options.includeReactions),
      sortOrder |-> IF options.sortOrder = "" THEN "newest"
                    ELSE options.sortOrder ]

\* C11: isFreeTier(options) is true exactly when the requested count (50 for
\* an omitted limit) is at most 10 and none of all, includeReplies and
\* includeParents is set; includeReactions and sortOrder never change it.
C11_FreeTierRule ==
    freeA # "" =>
        /\ (freeA = "true") <=>
               /\ (IF optsA.limit = 0 THEN 50 ELSE optsA.limit) <= 10
               /\ optsA.all # "true"
               /\ optsA.includeReplies # "true"
               /\ optsA.includeParents # "true"
        /\ \A x \in OptBool, so \in SortOrders :
               isFreeTier([optsA EXCEPT !.includeReactions = x,
                                        !.sortOrder = so]) = (freeA = "true")

\* a request of exactly 10 casts with reactions is classified free
C11_Witness ==
    /\ freeA = "true"
    /\ optsA.limit = 10
    /\ optsA.includeReactions = "true"
    /\ optsA.sortOrder = "oldest"

\* the options a client passes to have the server parse params
ClientOptions(p) ==
    [ fid |-> IF p.username = "" THEN 1 ELSE 0,
      username |-> IF p.username = "" THEN NoName
                   ELSE CHOOSE n \in ClientNames :
                            Normalize(n) = n /\ Str(n) = p.username,
      limit |-> p.limit,
      all |-> IF p.all THEN "true" ELSE "undefined",
      includeReplies |-> IF p.includeReplies THEN "true" ELSE "undefined",
      includeParents |-> IF p.includeParents THEN "true" ELSE "undefined",
      includeReactions |-> "undefined",
      sortOrder |-> p.sortOrder ]

\* C12: the client's free-tier classification and the server's handling of
\* the same request agree: a served request was charged (answered 402 first)
\* exactly when the client classifies it as paid.
C12_ClientServerAgree ==
    reqPc = "done" =>
        (isFreeTier(ClientOptions(params)) <=> response.status # 402)

\* C13: two option sets that are equal after default-filling (omitted limit
\* or 50, omitted or false extras, omitted sortOrder or "newest", any limit
\* when all is set) have the same pricing fingerprint.
C13_DefaultFillingSameFingerprint ==
    fpA # "" =>
        LET filled == DefaultFill(optsA)
        IN  \A b \in OptionSpace :
                DefaultFill(b) = filled => getPricingFingerprint(b) = fpA

\* a fingerprint was built for all = true with an explicit limit and an
\* explicit "newest", which other option sets equal after default-filling
C13_Witness ==
    /\ fpA # ""
    /\ optsA.all = "true"
    /\ optsA.limit = 11
    /\ optsA.includeReplies = "false"
    /\ optsA.sortOrder = "newest"
    /\ \E b \in OptionSpace :
           /\ b # optsA
           /\ b.limit = 0
           /\ b.sortOrder = ""
           /\ DefaultFill(b) = DefaultFill(optsA)

\* C14: two requests with the same pricing fingerprint denote the same
\* identifier (kind and value), the same count or "all" and the same
\* price-relevant extras.
C14_SameFingerprintSamePrice ==
    fpA # "" =>
        \A b \in OptionSpace :
            getPricingFingerprint(b) = fpA => Denotation(b) = Denotation(optsA)

\* C15: every cache key built from a username is built from its normalized
\* form: two spellings of one username give the same fid cache key and the
\* same estimate-cache fingerprint.
C15_KeysFromNormalizedName ==
    (pricingPc = "done" /\ fpA # "" /\ keyA # "") =>
        \A n \in ClientNames :
            Normalize(n) = Normalize(optsA.username) =>
                /\ FidCacheKey(n) = keyA
                /\ getPricingFingerprint([optsA EXCEPT !.username = n]) = fpA

\* C19: a request whose identifier does not resolve ends with a NotFound
\* outcome answered with a 4xx status.
C19_NotFoundIs4xx ==
    error = UserNotFound => response.status \in 400..499

\* ------------------------------------------------------------ client.fetch

StatusesSeen == [i \in 1..Len(responses) |-> responses[i].status]

\* C16: with a signer, one call of fetch makes at most two attempts and
\* invokes the signer at most once; a result returned after a first
\* payment-required response took exactly two attempts, one signature and a
\* retry that carried the authorization, and is the answer to the retry, be
\* it a success or a second payment-required response.
C16_OneRetryWithSigner ==
    hasSigner =>
        /\ attempts <= 2
        /\ signed <= 1
        /\ Len(responses) <= attempts
        /\ (result.kind = "returned" /\ responses[1].status = 402) =>
               /\ attempts = 2
               /\ signed = 1
               /\ authorized = <<FALSE, TRUE>>
               /\ Len(responses) = 2
               /\ result.status = responses[2].status
               /\ result.text = responses[2].body

\* a challenge was answered by a signed retry that succeeded
C16_Witness ==
    /\ hasSigner
    /\ result.kind = "returned"
    /\ StatusesSeen = <<402, 200>>
    /\ attempts = 2
    /\ result.status = 200

C18_DeadlineCoversWholeCall ==
    (result.kind # "none" /\ attempts > 0
        /\ settledAt > startedAt + DEFAULT_TIMEOUT) =>
        /\ result.kind = "threw"
        /\ result.error = "Request timed out"

\* ------------------------------------------------- validation at the boundary

\* the request fails boundary validation: no fid and no username, a fid or a
\* limit that is not a positive number, a sortOrder that is neither "newest"
\* nor "oldest" (a parameter with an empty text counts as omitted)
FailsValidation(q) ==
    \/ ~HasText(q, "fid") /\ ~HasName(q)
    \/ HasText(q, "fid") /\ q.fid \notin {"1", "2"}
    \/ HasText(q, "limit") /\ q.limit \notin {"1", "2"}
    \/ HasText(q, "sortOrder") /\ q.sortOrder \notin {"newest", "oldest"}

\* no upstream call, no admission, no cache write
NoWork ==
    /\ \A a \in Apis : outbound[a] = 0
    /\ \A e \in Endpoints : admitted[e] = <<>>
    /\ \A k \in CacheKeys : cache[k] = NoEntry /\ serverStored[k] = NeverStored

\* C20 as stated: a request that fails boundary validation is answered 400
\* without any upstream call, admission or cache write.
C20_InvalidIs400 ==
    (reqPc # "received" /\ FailsValidation(query)) =>
        /\ response.status = 400
        /\ NoWork

\* C20, amended: a request with at least one query parameter that fails
\* boundary validation is answered 400, a request with no query parameter
\* is redirected (302); neither makes an upstream call, is admitted by the
\* rate limiter or writes the cache.
C20_InvalidIs400OrRedirect ==
    (reqPc # "received" /\ FailsValidation(query)) =>
        /\ response.status = IF DOMAIN query = {} THEN 302 ELSE 400
        /\ reqPc = "answered"
        /\ NoWork

\* a request with a valid username and an unknown sortOrder was answered 400
C20_Witness ==
    /\ reqPc = "answered"
    /\ HasName(query)
    /\ HasText(query, "sortOrder")
    /\ query.sortOrder = "random"
    /\ response.status = 400
    /\ NoWork

\* ------------------------------------------------------------------ getUrl

\* the parameters of a URL with the given key
ParamsNamed(url, key) ==
    {url.params[i].value : i \in {j \in 1..Len(url.params) : url.params[j].key = key}}

\* the spellings of one username: letter-case variants, with or without one
\* leading "@", and the name the URL is to carry for them
Spellings ==
    { [ names |-> { <<"a", "l", "i", "c", "e">>, <<"A", "l", "i", "c", "e">>,
                    <<"@", "a", "l", "i", "c", "e">> },
        carried |-> "alice" ],
      [ names |-> { <<"3">> }, carried |-> "3" ] }

\* C21: getUrl gives the same URL for every spelling of a username (letter
\* case, one leading "@") and the URL carries the lower-cased name without
\* the "@".
C21_UrlNormalizesUsername ==
    (urlA # NoUrl /\ optsA.username # NoName) =>
        \A sp \in Spellings :
            optsA.username \in sp.names =>
                /\ ParamsNamed(urlA, "username") = {sp.carried}
                /\ \A n \in sp.names :
                       getUrl([optsA EXCEPT !.username = n]) = urlA

\* the URL of "@alice" was built
C21_Witness ==
    /\ urlA # NoUrl
    /\ optsA.username = <<"@", "a", "l", "i", "c", "e">>
    /\ ParamsNamed(urlA, "username") = {"alice"}

\* C22: limit and all=true never appear together in a URL: with all set the
\* URL carries all=true and no limit, without it a supplied limit is carried
\* as limit=<value>.
C22_LimitOrAll ==
    urlA # NoUrl =>
        /\ ~(ParamsNamed(urlA, "limit") # {} /\ ParamsNamed(urlA, "all") # {})
        /\ optsA.all = "true" =>
               /\ ParamsNamed(urlA, "all") = {"true"}
               /\ ParamsNamed(urlA, "limit") = {}
        /\ (optsA.all # "true" /\ optsA.limit # 0) =>
               /\ ParamsNamed(urlA, "limit") = {ToString(optsA.limit)}
               /\ ParamsNamed(urlA, "all") = {}

\* a URL was built for all = true together with a limit
C22_Witness ==
    /\ urlA # NoUrl
    /\ optsA.all = "true"
    /\ optsA.limit = 50
    /\ ParamsNamed(urlA, "all") = {"true"}
    /\ ParamsNamed(urlA, "limit") = {}

\* C23: getUrl emits only non-default options: each of includeReplies,
\* includeParents and includeReactions appears, as "true", exactly when the
\* option is true, and sortOrder appears exactly when it is "oldest".
C23_OnlyNonDefaults ==
    urlA # NoUrl =>
        /\ \A k \in {"includeReplies", "includeParents", "includeReactions"} :
               ParamsNamed(urlA, k) = IF optsA[k] = "true" THEN {"true"} ELSE {}
        /\ ParamsNamed(urlA, "sortOrder") =
               IF optsA.sortOrder = "oldest" THEN {"oldest"} ELSE {}

\* a URL was built for an explicit "newest" and explicit false extras
C23_Witness ==
    /\ urlA # NoUrl
    /\ optsA.sortOrder = "newest"
    /\ optsA.includeReplies = "false"
    /\ optsA.includeReactions = "true"
    /\ ParamsNamed(urlA, "sortOrder") = {}
    /\ ParamsNamed(urlA, "includeReactions") = {"true"}

\* ------------------------------------------------------- getServerEstimate

\* the step is the cache lookup of a getServerEstimate call for fp
LookupStep(fp) ==
    \/ lastRead' # lastRead /\ lastRead'.which = "client" /\ lastRead'.key = fp
    \/ estimateInflight'[fp] > estimateInflight[fp]

\* the step sends a request to /estimate
RequestsEstimate(fp) == estimateInflight'[fp] = estimateInflight[fp] + 1

\* C24: getServerEstimate for options that are free tier (at most 10 casts,
\* none of all, includeReplies, includeParents) returns price "$0" and
\* isFree true, sends no request and neither reads nor writes the estimate
\* cache.
C24_FreeEstimateIsLocal ==
    [][ ( /\ estimateCall' # estimateCall
          /\ (IF estimateCall'.limit = 0 THEN 50 ELSE estimateCall'.limit) <= 10
          /\ estimateCall'.all # "true"
          /\ estimateCall'.includeReplies # "true"
          /\ estimateCall'.includeParents # "true" ) =>
        /\ estimateResult'.kind = "free"
        /\ estimateResult'.price = "$0"
        /\ estimateResult'.isFree
        /\ UNCHANGED <<estimateCache, estimateInflight, clientStored, lastRead>>
      ]_vars

\* a free estimate was returned by a client that never used its cache or
\* the network
C24_Witness ==
    /\ estimateResult = FreeEstimate
    /\ estimateCall.limit = 10
    /\ lastRead = NoRead
    /\ \A fp \in Fingerprints :
           estimateInflight[fp] = 0 /\ estimateCache[fp] = NoCached

\* what C25 asks of a lookup for fp, given an estimate obtained earlier
WithinTtlSame(fp, obtained) ==
    LookupStep(fp) =>
        IF clock - obtained.at < ESTIMATE_CACHE_TTL
        THEN /\ estimateResult' = CachedEstimate(fp, obtained.data)
             /\ UNCHANGED estimateInflight
        ELSE RequestsEstimate(fp)

WakeStep(c) ==
    /\ callerPc[c] = "waiting"
    /\ callerPc'[c] # callerPc[c] \/ callerWake'[c] # callerWake[c]

\* C27: a caller that had to wait is never admitted on wake-up without a fresh
\* check. The pass it makes when its timer fires prunes both windows at the
\* current time and compares them with their ceilings; it is admitted (and
\* recorded in both windows) exactly when both pruned windows are below their
\* ceilings, and otherwise it records nothing and waits again until a later
\* time.
C27_FreshCheckOnWake ==
    [][\A c \in Callers :
          WakeStep(c) =>
              LET endpoint == callerEndpoint[c]
                  cleanedGlobal == cleanOldRequests(globalRequests, clock)
                  endpointReqs == cleanOldRequests(endpointRequests[endpoint], clock)
                  full == AtLimit(Len(cleanedGlobal), Len(endpointReqs))
              IN  /\ clock >= callerWake[c]
                  /\ (callerPc'[c] = "idle") <=> ~full
                  /\ ~full => /\ globalRequests' = Append(cleanedGlobal, clock)
                              /\ endpointRequests'[endpoint] =
                                     Append(endpointReqs, clock)
                  /\ full => /\ globalRequests' = cleanedGlobal
                             /\ endpointRequests'[endpoint] = endpointReqs
                             /\ admitted' = admitted
                             /\ callerWake'[c] > clock]_vars

\* C27 witness: a caller woke after its wait, found the windows full again
\* (other callers were admitted while it slept), and is waiting again.
C27_Witness ==
    \E c \in Callers :
        /\ callerPc[c] = "waiting"
        /\ callerWoke[c]
        /\ callerWake[c] > clock
        /\ AtLimit(Len(globalRequests), Len(endpointRequests[callerEndpoint[c]]))

\* ------------------------------------- C28: serialization per cache key

\* calls a and b of resolveFid for one username both missed the cache and both
\* wrote the entry, each having missed before the other wrote
BothMissedBothWrote(a, b) ==
    /\ a # b
    /\ resolveName[a] # "" /\ resolveName[a] = resolveName[b]
    /\ resolveMissAt[a] # 0 /\ resolveMissAt[b] # 0
    /\ resolveWroteAt[a] # 0 /\ resolveWroteAt[b] # 0
    /\ resolveMissAt[a] <= resolveWroteAt[b]
    /\ resolveMissAt[b] <= resolveWroteAt[a]

\* C28 (as claimed): reads and writes of the server cache are serialized per
\* key: when two requests concurrently resolve the same username with no live
\* cache entry, it never happens that both miss, both perform the upstream
\* lookup and both write the entry for that key.
C28_SerializedPerKey ==
    \A a, b \in Callers : ~BothMissedBothWrote(a, b)

\* ----------------------------------------------- C29: the primary page loop

\* fetchCastsForUser answers in this step
PageStep == reqPc = "awaitPage" /\ reqPc' \notin {"awaitPage", "failed"}

\* a call of fetchCastsForUser is issued in this step
PageIssued == outbound'["fetchCastsForUser"] = outbound["fetchCastsForUser"] + 1

\* C29: the page loop fetches at least one page; when a page returns, a
\* further page is requested exactly when that page came with a cursor and
\* either fetch-all is requested or the number of casts retained after
\* filtering is still below the requested count, and otherwise the loop is
\* left; the cursor kept is the one the page returned, no other step changes
\* it, and a fetch is issued only from the loop's waitForSlot.
C29_PageLoop ==
    /\ [](reqPc = "sorting" => outbound["fetchCastsForUser"] >= 1)
    /\ [][/\ PageStep =>
              LET returned == UpstreamPage(dataset, cursor).next
                  retained == Len(allCasts')
                  further == /\ returned # 0
                             /\ \/ params.all = TRUE
                                \/ retained < EffectiveLimit(params)
              IN  /\ cursor' = returned
                  /\ reqPc' = IF further THEN "pageSlot" ELSE "sorting"
          /\ ~PageStep => cursor' = cursor
          /\ PageIssued => /\ reqPc \in {"pageSlot", "pageWaiting"}
                           /\ reqPc' = "awaitPage"]_vars

\* C29 witness: the loop asked for a second page because fewer casts than
\* requested were retained, and left after it with the count reached although
\* the upstream offered a further cursor.
C29_Witness ==
    /\ reqPc = "sorting"
    /\ outbound["fetchCastsForUser"] = 2
    /\ cursor # 0
    /\ params.all = FALSE
    /\ Len(allCasts) >= EffectiveLimit(params)

\* ------------------------------------------ C30: parent lookups in batches

\* the lookup of hash h has started: its callback has entered waitForSlot
LookupStarted(h) == lookup[h] # "idle"

\* the lookup of hash h is under way: waiting for admission or awaiting the
\* upstream
LookupUnderWay(h) == lookup[h] \in {"waiting", "inflight"}

\* the number of the batch holding position k of parentHashes (from 0)
BatchOf(k) == (k - 1) \div batchSize

\* C30: during parent resolution at most batchSize (25, scaled) lookups are
\* under way at any time, and no lookup of a later batch has started, not even
\* with its pass through the rate limiter, while a lookup of an earlier batch
\* has not completed with a cast, without one or with a caught error.
C30_BatchesInTurn ==
    /\ Cardinality({h \in ParentHashes : LookupUnderWay(h)}) <= batchSize
    /\ \A i, j \in 1..Len(parentHashes) :
           (BatchOf(i) < BatchOf(j) /\ LookupStarted(parentHashes[j]))
               => lookup[parentHashes[i]] \in Settled

\* C30 witness: the second batch is under way after a first batch of
\* batchSize lookups completed, one of them with a tolerated failure.
C30_Witness ==
    /\ reqPc = "awaitBatch"
    /\ batchStart = batchSize
    /\ Len(parentHashes) > batchSize
    /\ LookupUnderWay(parentHashes[batchSize + 1])
    /\ \E k \in 1..batchSize : lookup[parentHashes[k]] = "error"
    /\ \A k \in 1..batchSize : lookup[parentHashes[k]] \in Settled

\* ------------------------------------ C31: parents only after the page loop

\* the page loop of the request is still running
InPageLoop == reqPc \in {"pageSlot", "pageWaiting", "awaitPage"}

\* a parent lookup has been started, admitted or issued
ParentLookupSeen ==
    \/ \E h \in ParentHashes : LookupStarted(h)
    \/ outbound["lookupCastByHashOrUrl"] > 0
    \/ admitted[CastEndpoint] # <<>>

\* C31: no parent lookup is issued while the page loop of the request is
\* running: lookups are seen only once the loop has been left, no page is
\* fetched after a lookup, and no lookup is ever made when includeParents is
\* not true.
C31_ParentsAfterPages ==
    /\ [](ParentLookupSeen => (params.includeParents = TRUE /\ ~InPageLoop))
    /\ [][PageIssued => ~ParentLookupSeen']_vars

\* C31 witness: parent lookups are under way after a page loop of two pages.
C31_Witness ==
    /\ reqPc = "awaitBatch"
    /\ outbound["fetchCastsForUser"] >= 2
    /\ outbound["lookupCastByHashOrUrl"] >= 1
    /\ params.includeParents = TRUE

\* ------------------------------------------ C32: the order of the phases

\* a parent lookup of the request has not completed yet
ParentLookupPending ==
    /\ reqPc \in {"batch", "awaitBatch"}
    /\ \E h \in ParentSet : lookup[h] \notin Settled

\* C32 (as claimed): the phases occur in the order fetching and filtering,
\* batch resolution of parents, sorting, truncating: while the page loop runs
\* and while a parent lookup has not completed, the accumulated sequence is
\* still in the order it was fetched in (newest first), the reversal for
\* sortOrder "oldest" coming only after the last lookup.
C32_ParentsBeforeSorting ==
    (InPageLoop \/ ParentLookupPending) => ReverseChronological(allCasts)

\* ------------------------------------- C33: one lookup per distinct parent

\* the distinct parent hashes the retained casts reference
ReferencedParents ==
    {allCasts[k].parentHash : k \in 1..Len(allCasts)} \ {NoParent}

\* C33: within one request each distinct parent hash referenced by the
\* retained casts is looked up at most once, however many casts reference it:
\* the list of hashes to look up holds no hash twice and only referenced
\* hashes, and the lookups issued never outnumber the distinct hashes; and in
\* the answer every cast that references a hash whose lookup succeeded
\* carries that parent.
C33_OneLookupPerParent ==
    /\ \A i, j \in 1..Len(parentHashes) :
           i # j => parentHashes[i] # parentHashes[j]
    /\ ParentSet \subseteq ReferencedParents
    /\ outbound["lookupCastByHashOrUrl"] <= Cardinality(ReferencedParents)
    /\ (Done /\ params.includeParents = TRUE) =>
           \A k \in 1..Len(Result) :
               (Result[k].parentHash # NoParent /\ lookup[Result[k].parentHash] = "ok")
                   => Result[k].parentCast = Result[k].parentHash

\* C33 witness: two casts of the answer reference the same parent, it was
\* looked up once, and both carry it.
C33_Witness ==
    /\ Done
    /\ outbound["lookupCastByHashOrUrl"] = 1
    /\ \E k, l \in 1..Len(Result) :
           /\ k # l
           /\ Result[k].parentHash # NoParent
           /\ Result[k].parentHash = Result[l].parentHash
           /\ Result[k].parentCast = Result[k].parentHash
           /\ Result[l].parentCast = Result[l].parentHash

\* --------------------------------------- C34: a read evicts an expired entry

\* getCached(key) reports absent in this step
ReadsAbsent(key) ==
    /\ lastRead' # lastRead
    /\ lastRead'.which = "server"
    /\ lastRead'.key = key
    /\ lastRead'.value = 0

\* setCache(key, ...) runs in this step
Stores(key) == serverStored'[key] # serverStored[key]

\* C34: a read of an expired entry evicts it. When getCached(key) reports
\* absent the cache holds no entry for the key afterwards and the entries
\* under other keys are as before; a key without an entry gets one only by a
\* setCache for that key.
C34_ExpiredReadEvicts ==
    [][\A key \in CacheKeys :
          /\ ReadsAbsent(key) =>
                /\ cache'[key] = NoEntry
                /\ \A other \in CacheKeys \ {key} : cache'[other] = cache[other]
          /\ (cache[key] = NoEntry /\ cache'[key] # NoEntry) => Stores(key)]_vars

\* C34 witness: a value was stored, a read past its expiry reported absent,
\* the entry is gone and the entry under the other key is still held.
C34_Witness ==
    /\ lastRead.which = "server"
    /\ lastRead.value = 0
    /\ lastRead.stored # NeverStored
    /\ lastRead.at > lastRead.stored.at + lastRead.stored.ttl
    /\ cache[lastRead.key] = NoEntry
    /\ \E other \in CacheKeys \ {lastRead.key} : cache[other] # NoEntry

\* ------------------------------------------- C35: resolved fids are cached

\* call r of resolveFid starts in this step, for the username name
ResolveStarts(r, name) ==
    /\ resolvePc[r] = "idle"
    /\ resolvePc'[r] # "idle"
    /\ resolveName'[r] = name

\* some call resolved name through the upstream no more than FID_TTL_MS ago
ResolvedRecently(name) ==
    \E q \in Callers :
        /\ resolveName[q] = name
        /\ resolveWroteAt[q] # 0
        /\ clock <= resolveWroteAt[q] + FID_TTL_MS

\* C35: after resolveFid has resolved a username, every call for the same
\* username within the following 5 minutes (FID_TTL_MS) returns the same fid
\* from the cache, without an upstream lookup; a resolution that fails leaves
\* the cache as it was.
C35_ResolvedFidIsCached ==
    [][\A r \in Callers :
          /\ \A name \in ResolveNames :
                (ResolveStarts(r, name) /\ ResolvedRecently(name)) =>
                    /\ resolvePc'[r] = "returned"
                    /\ resolveMissAt'[r] = 0
                    /\ lastRead'.key = "fid:" \o name
                    /\ lastRead'.value = FidOf(name)
          /\ (resolvePc[r] # "threw" /\ resolvePc'[r] = "threw") =>
                /\ cache' = cache
                /\ serverStored' = serverStored]_vars

\* C35 witness: a call that came at a later time than the resolution of the
\* same username was answered from the cache.
C35_Witness ==
    \E q, r \in Callers :
        /\ q # r
        /\ resolveName[q] = resolveName[r]
        /\ resolveWroteAt[q] # 0
        /\ resolvePc[r] = "returned"
        /\ resolveMissAt[r] = 0
        /\ lastRead.key = "fid:" \o resolveName[r]
        /\ lastRead.at > resolveWroteAt[q]
        /\ lastRead.value = FidOf(resolveName[r])

\* ------------------------------------- C36: what an admission does to windows

\* window after is what is left of window before once old timestamps are dropped
Pruned(before, after) ==
    /\ Len(after) <= Len(before)
    /\ after = SubSeq(before, Len(before) - Len(after) + 1, Len(before))

\* window after is window before, pruned, with the one timestamp now appended
PrunedPlusOne(before, after, now) ==
    /\ after # <<>>
    /\ after[Len(after)] = now
    /\ Pruned(before, SubSeq(after, 1, Len(after) - 1))

\* a call on endpoint e is admitted in this step
AdmissionOn(e) == admitted'[e] = Append(admitted[e], clock)

\* C36: an admission by waitForSlot(E) appends exactly one timestamp to the
\* global window and exactly one to the window of endpoint E, and changes the
\* window of no other endpoint; a step without an admission (a pass that ends
\* in a wait, or time passing) appends no timestamp to any window, and a step
\* that is not a pass of a caller leaves every window as it was.
C36_AdmissionFrame ==
    [][/\ \A e \in Endpoints :
             AdmissionOn(e) =>
                 /\ PrunedPlusOne(globalRequests, globalRequests', clock)
                 /\ PrunedPlusOne(endpointRequests[e], endpointRequests'[e], clock)
                 /\ \A other \in Endpoints \ {e} :
                        endpointRequests'[other] = endpointRequests[other]
       /\ admitted' = admitted =>
             /\ Pruned(globalRequests, globalRequests')
             /\ \A e \in Endpoints : Pruned(endpointRequests[e], endpointRequests'[e])
       /\ (admitted' = admitted /\ callerVars' = callerVars) =>
             /\ globalRequests' = globalRequests
             /\ endpointRequests' = endpointRequests]_vars

\* C36 witness: a call has just been admitted while the other endpoint's
\* window holds timestamps and another caller is waiting.
C36_Witness ==
    /\ globalRequests # <<>>
    /\ globalRequests[Len(globalRequests)] = clock
    /\ \A e \in Endpoints : endpointRequests[e] # <<>>
    /\ \E c \in Callers : callerPc[c] = "waiting"
    /\ Len(globalRequests) =
           Len(endpointRequests[CastsEndpoint]) + Len(endpointRequests[CastEndpoint])

\* --------------------------------- C37: round trip from client to server

\* the usernames a request text can spell
NameTexts == ClientNames \cup {Normalize(n) : n \in ClientNames}

\* c.req.query() for the URL the client built (index.ts:280): the parameters
\* by name, each with the text it carries
QueryOfUrl(url) ==
    [k \in {url.params[i].key : i \in 1..Len(url.params)} |->
        LET text == url.params[CHOOSE i \in 1..Len(url.params) :
                                  url.params[i].key = k].value
        IN  IF k = "username" THEN CHOOSE n \in NameTexts : Str(n) = text
            ELSE text]

\* what the server makes of a query that passed validation: the identifier
\* fetchUserData gets (index.ts:309) and the settings fetchCasts derives
\* (index.ts:151-155); the limit is not read when all is set
ServerReading(q) ==
    LET p == ParseParams(q)
    IN  [ fid |-> IF HasText(q, "fid") THEN Number(q.fid).n ELSE 0,
          username |-> p.username,
          all |-> fetchAll(p),
          limit |-> IF fetchAll(p) THEN 0 ELSE EffectiveLimit(p),
          includeReplies |-> p.includeReplies = TRUE,
          includeParents |-> includeParents(p),
          includeReactions |-> IsTrue(q, "includeReactions"),
          sortOrder |-> IF p.sortOrder = "" THEN "newest" ELSE p.sortOrder ]

\* the client's option set after default-filling, its username normalized
ClientReading(options) ==
    [DefaultFill(options) EXCEPT !.username = Str(Normalize(options.username))]

\* C37: for every valid option set the query string the client builds passes
\* the server's validation and is read by the server as the same identifier,
\* effective limit (50 by default), fetch-all flag, includeReplies,
\* includeParents, includeReactions and sortOrder ("newest" by default) as
\* the option set has after default-filling.
C37_RoundTrip ==
    urlA # NoUrl =>
        /\ Validate(QueryOfUrl(urlA)) = 0
        /\ ServerReading(QueryOfUrl(urlA)) = ClientReading(optsA)

\* C37 witness: a URL was built for "@alice" with the limit omitted, an
\* explicit "newest", includeReplies false and includeReactions true.
C37_Witness ==
    /\ urlA # NoUrl
    /\ optsA.username = <<"@", "a", "l", "i", "c", "e">>
    /\ optsA.limit = 0
    /\ optsA.all = "false"
    /\ optsA.sortOrder = "newest"
    /\ optsA.includeReplies = "false"
    /\ optsA.includeReactions = "true"

\* --------------------------------------- C38: every call is admitted

\* caller c makes a pass in this step that ends in a wait
WaitComputed(c) ==
    /\ callerPc'[c] = "waiting"
    /\ callerPc[c] = "idle" \/ callerWake'[c] # callerWake[c]

\* C38: with finitely many waitForSlot calls and time that keeps advancing,
\* every call is eventually admitted, no caller waits forever; and each wait
\* computed is strictly positive and at most the window length plus the
\* buffer.
C38_EveryCallAdmitted ==
    /\ \A c \in Callers : (callerPc[c] = "waiting") ~> (callerPc[c] = "idle")
    /\ [][\A c \in Callers :
             WaitComputed(c) =>
                 /\ callerWake'[c] - clock > 0
                 /\ callerWake'[c] - clock <= WINDOW_MS + BUFFER_MS]_vars

\* C38 witness: after the last call was made a caller that has already woken
\* once is waiting again, past the time up to which the clock runs freely.
C38_Witness ==
    \E c \in Callers :
        /\ callerPc[c] = "waiting"
        /\ callerWoke[c]
        /\ CallsMade = MaxCalls
        /\ clock > MaxTime

\* ------------------------------------------------ C39: fetchCasts terminates

\* the request has been answered
Answered == reqPc \in {"done", "failed"}

\* the pages the upstream history has (an empty history is one empty page)
PagesOf(d) == Max(1, (Len(d) + pageSize - 1) \div pageSize)

\* C39: against a history of finitely many pages whose last page carries no
\* cursor, and with every rate-limiter wait ending, the request is answered
\* for every parameter combination; the n-th fetch asks for the n-th page, so
\* no page is fetched twice, and no more pages are fetched than the history
\* has.
C39_FetchTerminates ==
    /\ <>Answered
    /\ [](outbound["fetchCastsForUser"] <= PagesOf(dataset))
    /\ [](reqPc = "awaitPage" =>
              cursor = pageSize * (outbound["fetchCastsForUser"] - 1))

\* C39 witness: a request for everything was answered after it fetched every
\* page of a history of more than one page, and it had to wait for a slot on
\* the way.
C39_Witness ==
    /\ reqPc = "done"
    /\ params.all = TRUE
    /\ PagesOf(dataset) > 1
    /\ outbound["fetchCastsForUser"] = PagesOf(dataset)
    /\ admitted[CastsEndpoint][PagesOf(dataset)] > admitted[CastsEndpoint][1]

\* ------------------------------------- C40: no replies, no parent lookups

\* C40: when includeReplies is not true the request issues no parent lookup
\* and takes no slot of the parent-lookup endpoint, even if includeParents is
\* true: no retained cast has a parentHash, so no hash is collected.
C40_NoRepliesNoLookups ==
    params.includeReplies # TRUE =>
        /\ outbound["lookupCastByHashOrUrl"] = 0
        /\ admitted[CastEndpoint] = <<>>
        /\ endpointRequests[CastEndpoint] = <<>>
        /\ parentHashes = <<>>
        /\ \A h \in ParentHashes : lookup[h] = "idle"

\* C40 witness: a request that asked for parents but not for replies was
\* answered with casts from a history that holds a reply.
C40_Witness ==
    /\ reqPc = "done"
    /\ params.includeParents = TRUE
    /\ params.includeReplies = FALSE
    /\ \E i \in 1..Len(dataset) : dataset[i] # NoParent
    /\ Len(response.casts) > 0

====
